---- MODULE Spec2Model ----
(***************************************************************************)
(* Authoritative DNS server cluster: in-memory store with version guards,  *)
(* SQLite persistence mirror, HTTP control API, peer replication and the   *)
(* resolver.  Names are modelled as label sequences with a flag telling    *)
(* whether the text is already a canonical lower-case FQDN.                *)
(***************************************************************************)
EXTENDS Integers, Sequences, FiniteSets, TLC

VARIABLES
    records,    \* [node -> set of aRecord]       store.records (map keyed by recordKey)
    zones,      \* [node -> set of zoneConfig]    store.zones   (map keyed by Zone)
    precords,   \* [node -> set of recordModel]   table "records"
    pzones,     \* [node -> set of zoneModel]     table "zones" (primary key: zone)
    cfg,        \* [node -> config]               read-only after start
    now,        \* [node -> Nat]                  wall clock of the node (ticks)
    inflight,   \* set of [to, ev]                replication POSTs under way
    pre,        \* snapshot of the state the last operation started from
    last,       \* what the last operation was called with and what it returned
    aux         \* scenario bookkeeping of the unit-level specifications

vars == <<records, zones, precords, pzones, cfg, now, inflight, pre, last, aux>>

----------------------------------------------------------------------------
(* Bounds *)

MaxVersion == 3
MaxTime == 3
MaxClusterTime == 4

Nodes == {"n1", "n2"}
Versions == 1..MaxVersion

----------------------------------------------------------------------------
(* Names *)

Fq(l) == [l |-> l, raw |-> FALSE]
Raw(l) == [l |-> l, raw |-> TRUE]

Root == Fq(<<>>)
EmptyName == Raw(<<>>)

normalizeName(name) ==
    IF name.l = <<>> THEN Root ELSE Fq(name.l)

RECURSIVE normalizeNames(_)
normalizeNames(in) ==
    IF in = <<>> THEN <<>>
    ELSE LET n == normalizeName(Head(in))
             rest == normalizeNames(Tail(in))
         IN IF n = Root THEN rest ELSE <<n>> \o rest

CountLabel(name) == Len(name.l)

SplitDomainName(name) == name.l

IsSubDomain(parent, child) ==
    LET p == parent.l
        c == child.l
    IN /\ Len(p) <= Len(c)
       /\ \A i \in 1..Len(p) : p[i] = c[Len(c) - Len(p) + i]

ZoneCom == Fq(<<"example", "com">>)
ZoneSvc == Fq(<<"svc", "example", "com">>)
NameApp == Fq(<<"app", "example", "com">>)
NameApi == Fq(<<"api", "svc", "example", "com">>)
NameNet == Fq(<<"example", "net">>)
NS1 == Fq(<<"ns1", "example", "com">>)
NS2 == Fq(<<"ns2", "example", "com">>)
Mail0 == Fq(<<"mail0", "example", "com">>)

----------------------------------------------------------------------------
(* Strings, types and addresses *)

TrimSpace(s) == IF s = " " THEN "" ELSE s

ToUpper(s) == IF s = "a" THEN "A" ELSE s

IPv4 == {"192.0.2.1", "192.0.2.2"}
IPv6 == {"2001:db8::1", "2001:db8::2"}

IsIPv4(ip) == TrimSpace(ip) \in IPv4
IsIPv6(ip) == TrimSpace(ip) \in IPv6

normalizeRecordType(recordType) ==
    LET t == ToUpper(TrimSpace(recordType))
    IN IF t \in {"AAAA", "TXT", "CNAME", "MX"} THEN t ELSE "A"

NoRecord ==
    [Name |-> EmptyName, Type |-> "", IP |-> "", Text |-> "", Target |-> EmptyName,
     Priority |-> 0, TTL |-> 0, Zone |-> EmptyName, UpdatedAt |-> 0,
     Version |-> 0, Source |-> ""]

NoZone ==
    [Zone |-> EmptyName, NS |-> <<>>, SOATTL |-> 0, Serial |-> 0, UpdatedAt |-> 0]

U == "n1"

DefaultTTL == 20
TTLs == {DefaultTTL, 30}

NoLast ==
    [op |-> "none", node |-> U, rec |-> NoRecord, name |-> EmptyName, type |-> "",
     version |-> 0, zone |-> NoZone, applied |-> FALSE, zcall |-> FALSE,
     zapplied |-> FALSE, status |-> 0, ns |-> <<>>, question |-> <<>>, writes |-> 0,
     pwrites |-> {}]

Snapshot(n) ==
    [records |-> records[n], zones |-> zones[n],
     precords |-> precords[n], pzones |-> pzones[n]]

\* the fields of the server fixed after start: its configuration and, in
\* Failing, the tables for which the database behind s.persist returns an
\* error on write (none while the database is healthy)
NoCfg ==
    [NodeID |-> "", APIToken |-> "", SyncToken |-> "", Peers |-> {},
     DefaultTTL |-> DefaultTTL, DefaultZone |-> EmptyName,
     DefaultNS |-> <<>>, Failing |-> {}]

recordKey(rec) ==
    LET val == CASE rec.Type \in {"A", "AAAA"} -> <<TrimSpace(rec.IP)>>
                 [] rec.Type = "TXT" -> <<rec.Text>>
                 [] rec.Type = "CNAME" -> <<normalizeName(rec.Target)>>
                 [] rec.Type = "MX" -> <<rec.Priority, normalizeName(rec.Target)>>
                 [] OTHER -> <<>>
    IN <<rec.Name, rec.Type, val>>

----------------------------------------------------------------------------
(* Store *)

\* s.records[key] = rec
PutRecord(recs, rec) ==
    {p \in recs : recordKey(p) # recordKey(rec)} \cup {rec}

Lookup(recs, key) == {p \in recs : recordKey(p) = key}

StoreNorm(rec) ==
    [rec EXCEPT !.Name = normalizeName(rec.Name),
                !.Type = normalizeRecordType(rec.Type),
                !.Zone = normalizeName(rec.Zone)]

Perms(S) ==
    {f \in [1..Cardinality(S) -> S] : \A i, j \in 1..Cardinality(S) : f[i] = f[j] => i = j}

\* The range loop of setRecord over the map in iteration order ord: members of
\* the RRset are deleted one by one until a newer member ends the call.
RECURSIVE setLoop(_, _, _)
setLoop(recs, rec, ord) ==
    IF ord = <<>> THEN [recs |-> recs, ok |-> TRUE]
    ELSE LET prev == Head(ord)
         IN IF prev.Name # rec.Name \/ prev.Type # rec.Type
            THEN setLoop(recs, rec, Tail(ord))
            ELSE IF prev.Version > rec.Version
                 THEN [recs |-> recs, ok |-> FALSE]
                 ELSE setLoop(recs \ {prev}, rec, Tail(ord))

setRecordOrd(recs, rec0, ord) ==
    LET rec == StoreNorm(rec0)
        loop == setLoop(recs, rec, ord)
    IN IF ~loop.ok THEN [recs |-> loop.recs, applied |-> FALSE]
       ELSE IF \E p \in Lookup(loop.recs, recordKey(rec)) : p.Version > rec.Version
            THEN [recs |-> loop.recs, applied |-> FALSE]
            ELSE [recs |-> PutRecord(loop.recs, rec), applied |-> TRUE]

\* the members already at the name and type are left in place
setRecord_Append(recs, rec0) ==
    LET rec == StoreNorm(rec0)
    IN {IF \E p \in Lookup(recs, recordKey(rec)) : p.Version > rec.Version
        THEN [recs |-> recs, applied |-> FALSE]
        ELSE [recs |-> PutRecord(recs, rec), applied |-> TRUE]}

\* every outcome some map iteration order produces
setRecord(recs, rec) ==
    {setRecordOrd(recs, rec, ord) : ord \in Perms(recs)}

\* the version guard dropped: the member is always written
addRecord_NoGuard(recs, rec0) ==
    LET rec == StoreNorm(rec0)
    IN [recs |-> PutRecord(recs, rec), applied |-> TRUE]

addRecord(recs, rec0) ==
    LET rec == StoreNorm(rec0)
    IN IF \E p \in Lookup(recs, recordKey(rec)) : p.Version > rec.Version
       THEN [recs |-> recs, applied |-> FALSE]
       ELSE [recs |-> PutRecord(recs, rec), applied |-> TRUE]

\* the per-member guard dropped: every member at the name goes
deleteRecordByType_NoGuard(recs, name0, recordType0, version) ==
    LET name == normalizeName(name0)
        recordType == ToUpper(TrimSpace(recordType0))
        gone == {p \in recs : /\ p.Name = name
                              /\ (recordType = "" \/ p.Type = recordType)}
    IN [recs |-> recs \ gone, applied |-> gone # {}]

deleteRecordByType(recs, name0, recordType0, version) ==
    LET name == normalizeName(name0)
        recordType == ToUpper(TrimSpace(recordType0))
        gone == {p \in recs : /\ p.Name = name
                              /\ (recordType = "" \/ p.Type = recordType)
                              /\ ~(p.Version > version)}
    IN [recs |-> recs \ gone, applied |-> gone # {}]

\* the whole RRset goes instead of the one member
removeRecord_WholeSet(recs, rec0, version) ==
    LET rec == StoreNorm(rec0)
        hit == {p \in recs : p.Name = rec.Name /\ p.Type = rec.Type}
    IN IF Lookup(recs, recordKey(rec)) = {} THEN [recs |-> recs, applied |-> FALSE]
       ELSE IF \E p \in Lookup(recs, recordKey(rec)) : p.Version > version
            THEN [recs |-> recs, applied |-> FALSE]
            ELSE [recs |-> recs \ hit, applied |-> TRUE]

removeRecord(recs, rec0, version) ==
    LET rec == StoreNorm(rec0)
        hit == Lookup(recs, recordKey(rec))
    IN IF hit = {} THEN [recs |-> recs, applied |-> FALSE]
       ELSE IF \E p \in hit : p.Version > version
            THEN [recs |-> recs, applied |-> FALSE]
            ELSE [recs |-> recs \ hit, applied |-> TRUE]

hasName(recs, name) == \E rec \in recs : rec.Name = normalizeName(name)

\* s.mu.Lock(): granted when no goroutine holds the mutex in either mode
LockFree(mu) == ~mu.w /\ mu.r = 0

\* a reader that does not wait for the writer
RLockFree_Unguarded(mu) == TRUE

\* s.mu.RLock(): granted when no writer holds the mutex
RLockFree(mu) == ~mu.w

\* the serial guard dropped: the zone is always overwritten
upsertZone_NoGuard(zs, z0) ==
    LET z == [z0 EXCEPT !.Zone = normalizeName(z0.Zone), !.NS = normalizeNames(z0.NS)]
    IN [zones |-> {p \in zs : p.Zone # z.Zone} \cup {z}, applied |-> TRUE]

upsertZone(zs, z0) ==
    LET z == [z0 EXCEPT !.Zone = normalizeName(z0.Zone), !.NS = normalizeNames(z0.NS)]
    IN IF \E prev \in zs : prev.Zone = z.Zone /\ prev.Serial > z.Serial
       THEN [zones |-> zs, applied |-> FALSE]
       ELSE [zones |-> {p \in zs : p.Zone # z.Zone} \cup {z}, applied |-> TRUE]

getZone(zs, zone) == {z \in zs : z.Zone = normalizeName(zone)}

\* the range loop of bestZone over the zones in iteration order ord
RECURSIVE bestZoneLoop(_, _, _)
bestZoneLoop(ord, q, acc) ==
    IF ord = <<>> THEN acc
    ELSE LET cfgz == Head(ord)
             labels == CountLabel(cfgz.Zone)
         IN IF ~IsSubDomain(cfgz.Zone, q)
            THEN bestZoneLoop(Tail(ord), q, acc)
            ELSE IF ~acc.found \/ labels > acc.bestLabels
                 THEN bestZoneLoop(Tail(ord), q,
                                   [best |-> cfgz, found |-> TRUE, bestLabels |-> labels])
                 ELSE bestZoneLoop(Tail(ord), q, acc)

\* the first matching zone is kept, whatever its length
bestZone_First(zs, name) ==
    LET q == normalizeName(name)
        pick(ord) == LET hit == {i \in 1..Len(ord) : IsSubDomain(ord[i].Zone, q)}
                     IN IF hit = {} THEN {}
                        ELSE {ord[CHOOSE i \in hit : \A j \in hit : i <= j]}
    IN UNION {pick(ord) : ord \in Perms(zs)}

\* the zones it can return (none when nothing matches), over every iteration
\* order of the map
bestZone(zs, name) ==
    LET q == normalizeName(name)
        res == {bestZoneLoop(ord, q, [best |-> NoZone, found |-> FALSE, bestLabels |-> 0]) :
                   ord \in Perms(zs)}
    IN {r.best : r \in {x \in res : x.found}}

----------------------------------------------------------------------------
(* Resolver *)

RecordTypes == {"A", "AAAA", "CNAME", "MX", "TXT"}

\* byte order of the type strings, as sort.Slice compares them
TypeRank(t) ==
    CASE t = "A" -> 1 [] t = "AAAA" -> 2 [] t = "CNAME" -> 3 [] t = "MX" -> 4
      [] t = "TXT" -> 5 [] OTHER -> 0

\* byte order of the names of the model, as Go compares the strings
NameOrder == <<Root, NameApi, NameApp, ZoneCom, NameNet, Mail0, NS1, NS2, ZoneSvc>>

NameRank(name) == CHOOSE i \in 1..Len(NameOrder) : NameOrder[i] = name

\* the matching records in every order the map iteration followed by the
\* (unstable) sort on type can leave them
getRecords(recs, name0, qtype) ==
    LET name == normalizeName(name0)
        out == {rec \in recs :
                   /\ rec.Name = name
                   /\ \/ qtype = "ANY"
                      \/ (qtype \in RecordTypes /\ rec.Type = qtype)}
    IN {ord \in Perms(out) :
           \A i, j \in 1..Len(ord) : i < j => TypeRank(ord[i].Type) <= TypeRank(ord[j].Type)}

\* every order the map iteration followed by the (unstable) sort on name can
\* leave the records in
listRecords(recs) ==
    {ord \in Perms(recs) :
        \A i, j \in 1..Len(ord) : i < j => NameRank(ord[i].Name) <= NameRank(ord[j].Name)}

NoRR ==
    [Name |-> EmptyName, Rrtype |-> "", Ttl |-> 0, A |-> "", Txt |-> <<>>,
     Target |-> EmptyName, Preference |-> 0, Mbox |-> EmptyName, Serial |-> 0,
     Refresh |-> 0, Retry |-> 0, Expire |-> 0, Minttl |-> 0]

\* texts of the model are shorter than 255 bytes: one chunk
chunkTXT(v) == <<v>>

soaForZone(z) ==
    [NoRR EXCEPT !.Name = z.Zone, !.Rrtype = "SOA", !.Ttl = z.SOATTL,
                 !.Target = IF Len(z.NS) > 0 THEN z.NS[1] ELSE z.Zone,
                 !.Mbox = Fq(<<"hostmaster">> \o z.Zone.l),
                 !.Serial = z.Serial, !.Refresh = 30, !.Retry = 30, !.Expire = 300,
                 !.Minttl = z.SOATTL]

\* a shuffle that loses the first element
shuffleRR_Drop(rrs) ==
    {[i \in 1..(Len(rrs) - 1) |-> rrs[p[i] + 1]] : p \in Perms(1..(Len(rrs) - 1))}

\* every order shuffleRR can leave the answers in
shuffleRR(rrs) ==
    {[i \in 1..Len(rrs) |-> rrs[p[i]]] : p \in Perms(1..Len(rrs))}

RRFor(name, rec) ==
    CASE rec.Type \in {"A", "AAAA"} ->
           [NoRR EXCEPT !.Name = name, !.Rrtype = rec.Type, !.Ttl = rec.TTL, !.A = rec.IP]
      [] rec.Type = "TXT" ->
           [NoRR EXCEPT !.Name = name, !.Rrtype = "TXT", !.Ttl = rec.TTL,
                        !.Txt = chunkTXT(rec.Text)]
      [] rec.Type = "CNAME" ->
           [NoRR EXCEPT !.Name = name, !.Rrtype = "CNAME", !.Ttl = rec.TTL,
                        !.Target = normalizeName(rec.Target)]
      [] OTHER ->
           [NoRR EXCEPT !.Name = name, !.Rrtype = "MX", !.Ttl = rec.TTL,
                        !.Target = normalizeName(rec.Target),
                        !.Preference = rec.Priority]

RECURSIVE MapRR(_, _)
MapRR(name, ord) ==
    IF ord = <<>> THEN <<>> ELSE <<RRFor(name, Head(ord))>> \o MapRR(name, Tail(ord))

RECURSIVE KeepTypes(_, _)
KeepTypes(ord, types) ==
    IF ord = <<>> THEN <<>>
    ELSE IF Head(ord).Type \in types /\ (Head(ord).Type = "A" => IsIPv4(Head(ord).IP))
                                     /\ (Head(ord).Type = "AAAA" => IsIPv6(Head(ord).IP))
         THEN <<Head(ord)>> \o KeepTypes(Tail(ord), types)
         ELSE KeepTypes(Tail(ord), types)

\* a resolver without the fallback
cnameFallback_None(recs, name) == {<<>>}

\* the CNAME records appended when the name has no direct answer
cnameFallback(recs, name) ==
    {MapRR(name, ord) : ord \in getRecords(recs, name, "CNAME")}

\* a comparison that looks at the preference alone
MXLess_PreferenceOnly(a, b) == a.Preference <= b.Preference

MXLess(a, b) ==
    IF a.Preference = b.Preference THEN NameRank(a.Target) < NameRank(b.Target)
    ELSE a.Preference < b.Preference

\* every answer sequence one question can append to the response
answersFor(recs, zs, q) ==
    LET name == normalizeName(q.Name)
        Ends(prefix, tails) == {prefix \o t : t \in tails}
    IN CASE q.Qtype \in {"A", "ANY"} ->
              UNION {LET direct == \E i \in 1..Len(ord) :
                                       \/ ord[i].Type = "A"
                                       \/ (q.Qtype = "ANY" /\ ord[i].Type \in {"TXT", "CNAME", "MX"})
                         others == IF q.Qtype = "ANY"
                                   THEN MapRR(name, KeepTypes(ord, {"AAAA", "TXT", "CNAME", "MX"}))
                                   ELSE <<>>
                         aAnswers == MapRR(name, KeepTypes(ord, {"A"}))
                     IN UNION {IF q.Qtype = "A" /\ ~direct
                               THEN Ends(others \o sh, cnameFallback(recs, name))
                               ELSE {others \o sh} : sh \in shuffleRR(aAnswers)}
                     : ord \in getRecords(recs, name, q.Qtype)}
         [] q.Qtype = "AAAA" ->
              UNION {LET aaaaAnswers == MapRR(name, KeepTypes(ord, {"AAAA"}))
                     IN UNION {IF aaaaAnswers = <<>>
                               THEN Ends(sh, cnameFallback(recs, name))
                               ELSE {sh} : sh \in shuffleRR(aaaaAnswers)}
                     : ord \in getRecords(recs, name, "AAAA")}
         [] q.Qtype = "TXT" ->
              UNION {IF ord = <<>> THEN cnameFallback(recs, name) ELSE {MapRR(name, ord)}
                     : ord \in getRecords(recs, name, "TXT")}
         [] q.Qtype = "CNAME" -> cnameFallback(recs, name)
         [] q.Qtype = "MX" ->
              UNION {{srt \in shuffleRR(MapRR(name, ord)) :
                         \A i, j \in 1..Len(srt) : i < j => MXLess(srt[i], srt[j])}
                     : ord \in getRecords(recs, name, "MX")}
         [] q.Qtype = "NS" ->
              LET zone == getZone(zs, name)
              IN IF zone = {} THEN {<<>>}
                 ELSE {[i \in 1..Len(z.NS) |->
                           [NoRR EXCEPT !.Name = name, !.Rrtype = "NS", !.Ttl = z.SOATTL,
                                        !.Target = z.NS[i]]] : z \in zone}
         [] q.Qtype = "SOA" ->
              LET zone == bestZone(zs, name)
              IN IF zone = {} THEN {<<>>} ELSE {<<soaForZone(z)>> : z \in zone}
         [] OTHER -> {<<>>}

RECURSIVE answerSet(_, _, _)
answerSet(recs, zs, question) ==
    IF question = <<>> THEN {<<>>}
    ELSE {a \o b : a \in answersFor(recs, zs, Head(question)),
                   b \in answerSet(recs, zs, Tail(question))}

\* no rcode chosen for an empty answer: the server failure code goes out
resolveDNS_ServFail(recs, zs, question) ==
    {[Rcode |-> IF Len(answer) = 0 THEN "SERVFAIL" ELSE "NOERROR", Authoritative |-> TRUE,
      Question |-> question, Answer |-> answer, Ns |-> <<>>]
     : answer \in answerSet(recs, zs, question)}

\* every response the resolver can give to the request
resolveDNS(recs, zs, question) ==
    {IF Len(answer) = 0
     THEN LET firstQ == IF Len(question) > 0 THEN normalizeName(question[1].Name) ELSE Root
              firstType == IF Len(question) > 0 THEN question[1].Qtype ELSE "NONE"
              zone == bestZone(zs, firstQ)
          IN IF zone # {}
             THEN [Rcode |-> IF /\ hasName(recs, firstQ)
                                /\ firstType \in {"A", "AAAA", "TXT", "CNAME", "MX", "ANY"}
                             THEN "NOERROR" ELSE "NXDOMAIN",
                   Authoritative |-> TRUE, Question |-> question, Answer |-> answer,
                   Ns |-> <<soaForZone(CHOOSE z \in zone : TRUE)>>]
             ELSE [Rcode |-> "REFUSED", Authoritative |-> TRUE, Question |-> question,
                   Answer |-> answer, Ns |-> <<>>]
     ELSE [Rcode |-> "NOERROR", Authoritative |-> TRUE, Question |-> question,
           Answer |-> answer, Ns |-> <<>>]
     : answer \in answerSet(recs, zs, question)}

----------------------------------------------------------------------------
(* Persistence: the two tables, addressed through GORM *)

CanonIP(ip) == TrimSpace(ip)

normalizeRecord(rec) ==
    LET t == normalizeRecordType(rec.Type)
    IN [rec EXCEPT !.Name = normalizeName(rec.Name),
                   !.Type = t,
                   !.Zone = normalizeName(rec.Zone),
                   !.Target = normalizeName(rec.Target),
                   !.Text = TrimSpace(rec.Text),
                   !.IP = IF t \in {"A", "AAAA"} /\ (IsIPv4(rec.IP) \/ IsIPv6(rec.IP))
                          THEN CanonIP(rec.IP) ELSE rec.IP]

recordModelFrom(rec) == rec

recordIdentityQuery(rows, rec) ==
    {row \in rows :
        /\ row.Name = rec.Name
        /\ row.Type = rec.Type
        /\ CASE rec.Type \in {"A", "AAAA"} -> row.IP = rec.IP
             [] rec.Type = "TXT" -> row.Text = rec.Text
             [] rec.Type = "CNAME" -> row.Target = rec.Target
             [] rec.Type = "MX" -> row.Target = rec.Target /\ row.Priority = rec.Priority
             [] OTHER -> TRUE}

\* the version guard dropped: the row set is always replaced
persistUpsertRecord_NoGuard(rows, rec0) ==
    LET rec == normalizeRecord(rec0)
        existing == {row \in rows : row.Name = rec.Name /\ row.Type = rec.Type}
    IN (rows \ existing) \cup {recordModelFrom(rec)}

persistUpsertRecord(rows, rec0) ==
    LET rec == normalizeRecord(rec0)
        existing == {row \in rows : row.Name = rec.Name /\ row.Type = rec.Type}
    IN IF \E row \in existing : row.Version > rec.Version
       THEN rows
       ELSE (rows \ existing) \cup {recordModelFrom(rec)}

\* db.Model(&existing).Updates(model): a struct update writes the non-zero
\* fields of model only
Updates(existing, model) ==
    [existing EXCEPT
        !.IP = IF model.IP = "" THEN @ ELSE model.IP,
        !.Text = IF model.Text = "" THEN @ ELSE model.Text,
        !.Target = IF model.Target = EmptyName THEN @ ELSE model.Target,
        !.Priority = IF model.Priority = 0 THEN @ ELSE model.Priority,
        !.TTL = IF model.TTL = 0 THEN @ ELSE model.TTL,
        !.Zone = IF model.Zone = EmptyName THEN @ ELSE model.Zone,
        !.UpdatedAt = IF model.UpdatedAt = 0 THEN @ ELSE model.UpdatedAt,
        !.Version = IF model.Version = 0 THEN @ ELSE model.Version,
        !.Source = IF model.Source = "" THEN @ ELSE model.Source]

persistAddRecord(rows, rec0) ==
    LET rec == normalizeRecord([rec0 EXCEPT !.Type = normalizeRecordType(rec0.Type)])
        found == recordIdentityQuery(rows, rec)
    IN IF found = {} THEN rows \cup {recordModelFrom(rec)}
       ELSE LET existing == CHOOSE row \in found : TRUE
            IN IF existing.Version > rec.Version
               THEN rows
               ELSE (rows \ {existing}) \cup {Updates(existing, recordModelFrom(rec))}

persistDeleteRecord(rows, name0, recordType0, version) ==
    LET name == normalizeName(name0)
        recordType == ToUpper(TrimSpace(recordType0))
        found == {row \in rows : /\ row.Name = name
                                 /\ (recordType = "" \/ row.Type = recordType)}
    IN rows \ {row \in found : ~(row.Version > version)}

persistRemoveRecord(rows, rec0, version) ==
    LET rec == normalizeRecord(rec0)
        existing == recordIdentityQuery(rows, rec)
    IN rows \ {row \in existing : ~(row.Version > version)}

\* the row is keyed by z.Zone as passed in; the NS list is stored as passed in
persistUpsertZone(zrows, z) ==
    IF \E existing \in zrows : existing.Zone = z.Zone /\ existing.Serial > z.Serial
    THEN zrows
    ELSE {row \in zrows : row.Zone # z.Zone} \cup {z}

unmarshalNS(ns) == normalizeNames(ns)

RECURSIVE loadZones(_, _)
loadZones(zs, ord) ==
    IF ord = <<>> THEN zs
    ELSE LET z == Head(ord)
         IN loadZones(upsertZone(zs, [z EXCEPT !.NS = unmarshalNS(z.NS)]).zones, Tail(ord))

RECURSIVE loadRecords(_, _)
loadRecords(recs, ord) ==
    IF ord = <<>> THEN recs
    ELSE loadRecords(addRecord(recs, Head(ord)).recs, Tail(ord))

\* every store a start of the process can build from the tables (the row
\* order of a SELECT without ORDER BY is the database's choice)
loadIntoStore(zrows, rows) ==
    {[zones |-> loadZones({}, zo), records |-> loadRecords({}, ro)] :
        zo \in Perms(zrows), ro \in Perms(rows)}

----------------------------------------------------------------------------
(* Control API and sync ingest *)

Unix(t) == t
UnixNano(t) == t

\* the flag ignored: every mutation is replicated
shouldPropagate_Always(v) == TRUE

shouldPropagate(v) == v # "false"

defaultNSForZone(c) == c.DefaultNS

inferZone(n, name) ==
    LET best == bestZone(zones[n], name)
        labels == SplitDomainName(normalizeName(name))
    IN IF best # {} THEN (CHOOSE z \in best : TRUE).Zone
       ELSE IF cfg[n].DefaultZone # EmptyName THEN cfg[n].DefaultZone
       ELSE IF Len(labels) <= 1 THEN normalizeName(name)
       ELSE normalizeName(Raw(Tail(labels)))

\* result: [err, rec]
normalizeRecordInput(n, rec0) ==
    LET rawType0 == ToUpper(TrimSpace(rec0.Type))
        rawType == IF rawType0 # "" THEN rawType0
                   ELSE IF TrimSpace(rec0.Text) # "" THEN "TXT"
                   ELSE IF rec0.Target # EmptyName /\ rec0.Priority > 0 THEN "MX"
                   ELSE IF rec0.Target # EmptyName THEN "CNAME"
                   ELSE IF IsIPv6(rec0.IP) THEN "AAAA"
                   ELSE "A"
        type == IF rawType = "MX" THEN "MX" ELSE normalizeRecordType(rawType)
        rec == [rec0 EXCEPT !.Type = type]
        fin(r) == LET name == normalizeName(r.Name)
                      zone == normalizeName(r.Zone)
                  IN [r EXCEPT !.Name = name,
                               !.Zone = IF zone = Root THEN inferZone(n, name) ELSE zone]
    IN CASE type = "A" ->
                IF ~IsIPv4(rec.IP) THEN [err |-> "type A requires IPv4", rec |-> rec]
                ELSE [err |-> "", rec |-> fin([rec EXCEPT !.IP = CanonIP(rec.IP), !.Text = "",
                                                         !.Target = EmptyName, !.Priority = 0])]
         [] type = "AAAA" ->
                IF ~IsIPv6(rec.IP) THEN [err |-> "type AAAA requires IPv6", rec |-> rec]
                ELSE [err |-> "", rec |-> fin([rec EXCEPT !.IP = CanonIP(rec.IP), !.Text = "",
                                                         !.Target = EmptyName, !.Priority = 0])]
         [] type = "TXT" ->
                IF TrimSpace(rec.Text) = "" THEN [err |-> "type TXT requires text", rec |-> rec]
                ELSE [err |-> "", rec |-> fin([rec EXCEPT !.Text = TrimSpace(rec.Text), !.IP = "",
                                                         !.Target = EmptyName, !.Priority = 0])]
         [] type = "CNAME" ->
                IF normalizeName(rec.Target) = Root
                THEN [err |-> "type CNAME requires target", rec |-> rec]
                ELSE [err |-> "", rec |-> fin([rec EXCEPT !.Target = normalizeName(rec.Target),
                                                         !.IP = "", !.Text = "", !.Priority = 0])]
         [] type = "MX" ->
                IF normalizeName(rec.Target) = Root
                THEN [err |-> "type MX requires target", rec |-> rec]
                ELSE [err |-> "", rec |-> fin([rec EXCEPT !.Target = normalizeName(rec.Target),
                                                         !.Priority = IF @ = 0 THEN 10 ELSE @,
                                                         !.IP = "", !.Text = ""])]
         [] OTHER -> [err |-> "type must be A, AAAA, TXT, CNAME or MX", rec |-> rec]

buildRecordFromRequest(n, name, req, t) ==
    normalizeRecordInput(n,
        [Name |-> name,
         Type |-> ToUpper(TrimSpace(req.Type)),
         IP |-> TrimSpace(req.IP),
         Text |-> TrimSpace(req.Text),
         Target |-> req.Target,
         Priority |-> req.Priority,
         TTL |-> IF req.TTL = 0 THEN cfg[n].DefaultTTL ELSE req.TTL,
         Zone |-> IF req.Zone = EmptyName THEN inferZone(n, name) ELSE req.Zone,
         UpdatedAt |-> t,
         Version |-> UnixNano(t),
         Source |-> cfg[n].NodeID])

\* a hard-coded name server instead of the error
ensureZoneDefaults_Fallback(n, z, t) ==
    [err |-> FALSE,
     z |-> [z EXCEPT !.NS = <<NS1>>, !.SOATTL = cfg[n].DefaultTTL, !.Serial = Unix(t),
                     !.UpdatedAt = t]]

\* result: [err, z]
ensureZoneDefaults(n, z, t) ==
    LET existing == getZone(zones[n], z.Zone)
        stamp(zc) == [zc EXCEPT !.Serial = IF @ = 0 THEN Unix(t) ELSE @,
                                !.UpdatedAt = IF @ = 0 THEN t ELSE @]
    IN IF existing # {}
       THEN LET e == CHOOSE x \in existing : TRUE
                z1 == stamp([z EXCEPT !.NS = IF Len(@) = 0 THEN e.NS ELSE @,
                                      !.SOATTL = IF @ = 0 THEN e.SOATTL ELSE @])
            IN [err |-> Len(z1.NS) = 0, z |-> z1]
       ELSE LET z1 == [z EXCEPT !.NS = IF Len(@) = 0 THEN defaultNSForZone(cfg[n]) ELSE @]
            IN IF Len(z1.NS) = 0 THEN [err |-> TRUE, z |-> z1]
               ELSE [err |-> FALSE,
                     z |-> stamp([z1 EXCEPT !.SOATTL = IF @ = 0 THEN cfg[n].DefaultTTL ELSE @])]

NoEvent ==
    [OriginNode |-> "", Op |-> "", HasRecord |-> FALSE, Record |-> NoRecord,
     Name |-> EmptyName, Type |-> "", Zone |-> EmptyName, Version |-> 0, EventTime |-> 0,
     HasZoneConfig |-> FALSE, ZoneConfig |-> NoZone]

\* go s.propagate(ev): one POST per configured peer
propagate(n, ev) == {[to |-> peer, ev |-> ev] : peer \in cfg[n].Peers}

\* the ingest handler forwarding what it received to its own peers
syncRelay_Forward(n, ev) == propagate(n, ev)

\* the events handleSyncEvent hands to propagate: it never calls it
syncRelay(n, ev) == {}

\* a POST that did not succeed stays queued and is sent again
postOnce_Retry(m, outcome) == IF outcome = "accepted" THEN inflight \ {m} ELSE inflight

\* the goroutine of one peer: one POST, the outcome is only logged
postOnce(m, outcome) == inflight \ {m}

\* an event only for a mutation the store applied
Emit_IfApplied(n, flag, ev) ==
    inflight' = IF /\ shouldPropagate(flag)
                   /\ (IF last'.op = "zoneput" THEN last'.zapplied ELSE last'.applied)
                THEN inflight \cup propagate(n, ev) ELSE inflight

Emit(n, flag, ev) ==
    inflight' = IF shouldPropagate(flag) THEN inflight \cup propagate(n, ev) ELSE inflight

Reject(n, op, code) ==
    /\ last' = [NoLast EXCEPT !.op = op, !.node = n, !.status = code]
    /\ UNCHANGED <<records, zones, precords, pzones, inflight>>

\* a 400 to a request that named (or implied) the zone and carried the list ns
RejectZone(n, op, code, zone, ns) ==
    /\ last' = [NoLast EXCEPT !.op = op, !.node = n, !.status = code,
                              !.zone = [NoZone EXCEPT !.Zone = normalizeName(zone)],
                              !.ns = ns]
    /\ UNCHANGED <<records, zones, precords, pzones, inflight>>

NoHeaders == [Authorization |-> "", XAPIToken |-> "", XSyncToken |-> ""]

\* strings.TrimPrefix(v, "Bearer ") on the header values of the model
TrimPrefixBearer(v) ==
    CASE v = "Bearer secret" -> "secret"
      [] v = "Bearer other" -> "other"
      [] OTHER -> v

validToken(hdr, expected) ==
    LET bearer == TrimSpace(TrimPrefixBearer(hdr.Authorization))
        header == TrimSpace(hdr.XAPIToken)
    IN \/ (bearer # "" /\ bearer = expected)
       \/ (header # "" /\ header = expected)

\* writeJSON(w, 401, ...) by a middleware: the handler never runs
Unauthorized(n, op) ==
    /\ last' = [NoLast EXCEPT !.op = op, !.node = n, !.status = 401]
    /\ pre' = Snapshot(n)
    /\ UNCHANGED <<records, zones, precords, pzones, cfg, now>>

apiAuthMiddleware(n, hdr, op, next) ==
    IF cfg[n].APIToken # "" /\ ~validToken(hdr, cfg[n].APIToken)
    THEN Unauthorized(n, op) /\ UNCHANGED inflight
    ELSE next

\* the token check dropped: every event reaches the ingest handler
syncAuthMiddleware_Open(n, hdr, op, next) ==
    next

syncAuthMiddleware(n, hdr, op, next) ==
    IF cfg[n].SyncToken = "" THEN next
    ELSE LET tok == TrimSpace(hdr.XSyncToken)
         IN IF tok = "" \/ tok # cfg[n].SyncToken THEN Unauthorized(n, op) ELSE next

\* GET /v1/records and GET /v1/zones
handleList(n) ==
    /\ last' = [NoLast EXCEPT !.op = "list", !.node = n, !.status = 200]
    /\ pre' = Snapshot(n)
    /\ UNCHANGED <<records, zones, precords, pzones, cfg, now, inflight>>

\* the tokens of the configuration, from the environment
loadConfig(env) ==
    LET apiToken == TrimSpace(env.API_TOKEN)
        syncToken == TrimSpace(env.SYNC_TOKEN)
    IN [NoCfg EXCEPT !.NodeID = env.NODE_ID, !.Peers = env.PEERS,
                     !.DefaultNS = normalizeNames(env.DEFAULT_NS),
                     !.DefaultZone = IF normalizeName(env.DEFAULT_ZONE) = Root
                                     THEN EmptyName ELSE normalizeName(env.DEFAULT_ZONE),
                     !.APIToken = apiToken,
                     !.SyncToken = IF syncToken = "" THEN apiToken ELSE syncToken]

\* what a write to a table leaves in it: the rows as written, or, when the
\* database returns an error for the table, the rows it held
Durable(n, table, rows, written) ==
    IF table \in cfg[n].Failing THEN rows ELSE written

\* the tables the handler called the persistence layer for
Attempts(rtried, ztried) ==
    (IF rtried THEN {"records"} ELSE {}) \cup (IF ztried THEN {"zones"} ELSE {})

\* a handler that undoes the stored zone when its persistence write fails
ZoneStep_Rollback(n, zoneCfg) ==
    LET zo == upsertZone(zones[n], zoneCfg)
    IN [zones |-> IF zo.applied /\ "zones" \in cfg[n].Failing THEN zones[n] ELSE zo.zones,
        pzones |-> IF zo.applied
                   THEN Durable(n, "zones", pzones[n], persistUpsertZone(pzones[n], zoneCfg))
                   ELSE pzones[n],
        applied |-> zo.applied,
        tried |-> zo.applied]

\* the zone upsert both record handlers run before the record write
ZoneStep(n, zoneCfg) ==
    LET zo == upsertZone(zones[n], zoneCfg)
    IN [zones |-> zo.zones,
        pzones |-> IF zo.applied
                   THEN Durable(n, "zones", pzones[n], persistUpsertZone(pzones[n], zoneCfg))
                   ELSE pzones[n],
        applied |-> zo.applied,
        tried |-> zo.applied]

\* a handler that writes the record to the database whatever the store returned
RecordStep_Always(n, applied, written) ==
    [rows |-> Durable(n, "records", precords[n], written), tried |-> TRUE]

\* if s.data.<op>(rec) { if err := s.persist.<op>(rec); err != nil { log } }
RecordStep(n, applied, written) ==
    [rows |-> IF applied THEN Durable(n, "records", precords[n], written) ELSE precords[n],
     tried |-> applied]

handleRecordUpsert(n, name0, req, t) ==
    LET name == normalizeName(name0)
        zone == IF req.Zone = EmptyName THEN inferZone(n, name) ELSE req.Zone
        built == buildRecordFromRequest(n, name, [req EXCEPT !.Zone = zone], t)
        rec == built.rec
        ez == ensureZoneDefaults(n, [NoZone EXCEPT !.Zone = zone], t)
        zs == ZoneStep(n, ez.z)
    IN /\ now' = [now EXCEPT ![n] = t]
       /\ pre' = Snapshot(n)
       /\ UNCHANGED cfg
       /\ IF name = Root \/ built.err # "" \/ ez.err
          THEN RejectZone(n, "put", 400, zone, <<>>)
          ELSE \E o \in setRecord(records[n], rec) :
               LET rs == RecordStep(n, o.applied, persistUpsertRecord(precords[n], rec))
               IN
                 /\ zones' = [zones EXCEPT ![n] = zs.zones]
                 /\ pzones' = [pzones EXCEPT ![n] = zs.pzones]
                 /\ records' = [records EXCEPT ![n] = o.recs]
                 /\ precords' = [precords EXCEPT ![n] = rs.rows]
                 /\ last' = [NoLast EXCEPT !.op = "put", !.node = n, !.rec = rec,
                                           !.version = rec.Version, !.zone = ez.z,
                                           !.applied = o.applied, !.zcall = TRUE,
                                           !.zapplied = zs.applied, !.status = 200,
                                           !.pwrites = Attempts(rs.tried, zs.tried)]
                 /\ Emit(n, req.Propagate,
                         [NoEvent EXCEPT !.OriginNode = cfg[n].NodeID, !.Op = "set",
                                         !.HasRecord = TRUE, !.Record = rec,
                                         !.Version = rec.Version, !.EventTime = t])

handleRecordAdd(n, name0, req, t) ==
    LET name == normalizeName(name0)
        built == buildRecordFromRequest(n, name, req, t)
        rec == built.rec
        ez == ensureZoneDefaults(n, [NoZone EXCEPT !.Zone = rec.Zone], t)
        zs == ZoneStep(n, ez.z)
        o == addRecord(records[n], rec)
        rs == RecordStep(n, o.applied, persistAddRecord(precords[n], rec))
    IN /\ now' = [now EXCEPT ![n] = t]
       /\ pre' = Snapshot(n)
       /\ UNCHANGED cfg
       /\ IF name = Root \/ built.err # "" \/ ez.err
          THEN RejectZone(n, "add", 400,
                          IF req.Zone = EmptyName THEN inferZone(n, name) ELSE req.Zone, <<>>)
          ELSE /\ zones' = [zones EXCEPT ![n] = zs.zones]
               /\ pzones' = [pzones EXCEPT ![n] = zs.pzones]
               /\ records' = [records EXCEPT ![n] = o.recs]
               /\ precords' = [precords EXCEPT ![n] = rs.rows]
               /\ last' = [NoLast EXCEPT !.op = "add", !.node = n, !.rec = rec,
                                         !.version = rec.Version, !.zone = ez.z,
                                         !.applied = o.applied, !.zcall = TRUE,
                                         !.zapplied = zs.applied, !.status = 200,
                                         !.pwrites = Attempts(rs.tried, zs.tried)]
               /\ Emit(n, req.Propagate,
                       [NoEvent EXCEPT !.OriginNode = cfg[n].NodeID, !.Op = "add",
                                       !.HasRecord = TRUE, !.Record = rec,
                                       !.Version = rec.Version, !.EventTime = t])

handleRecordRemove(n, name0, req, t) ==
    LET name == normalizeName(name0)
        built == buildRecordFromRequest(n, name, req, t)
        rec == built.rec
        o == removeRecord(records[n], rec, rec.Version)
        rs == RecordStep(n, o.applied, persistRemoveRecord(precords[n], rec, rec.Version))
    IN /\ now' = [now EXCEPT ![n] = t]
       /\ pre' = Snapshot(n)
       /\ UNCHANGED cfg
       /\ IF name = Root \/ built.err # ""
          THEN Reject(n, "remove", 400)
          ELSE /\ records' = [records EXCEPT ![n] = o.recs]
               /\ precords' = [precords EXCEPT ![n] = rs.rows]
               /\ last' = [NoLast EXCEPT !.op = "remove", !.node = n, !.rec = rec,
                                         !.version = rec.Version, !.applied = o.applied,
                                         !.status = 200,
                                         !.pwrites = Attempts(rs.tried, FALSE)]
               /\ UNCHANGED <<zones, pzones>>
               /\ Emit(n, req.Propagate,
                       [NoEvent EXCEPT !.OriginNode = cfg[n].NodeID, !.Op = "remove",
                                       !.HasRecord = TRUE, !.Record = rec,
                                       !.Version = rec.Version, !.EventTime = t])

handleRecordDelete(n, name0, type0, flag, t) ==
    LET name == normalizeName(name0)
        version == UnixNano(t)
        recordType == ToUpper(TrimSpace(type0))
        o == deleteRecordByType(records[n], name, recordType, version)
        rs == RecordStep(n, o.applied,
                         persistDeleteRecord(precords[n], name, recordType, version))
    IN /\ now' = [now EXCEPT ![n] = t]
       /\ pre' = Snapshot(n)
       /\ UNCHANGED cfg
       /\ IF name = Root \/ recordType \notin {"", "A", "AAAA", "TXT", "CNAME", "MX"}
          THEN Reject(n, "delete", 400)
          ELSE /\ records' = [records EXCEPT ![n] = o.recs]
               /\ precords' = [precords EXCEPT ![n] = rs.rows]
               /\ last' = [NoLast EXCEPT !.op = "delete", !.node = n, !.name = name,
                                         !.type = recordType, !.version = version,
                                         !.applied = o.applied, !.status = 200,
                                         !.pwrites = Attempts(rs.tried, FALSE)]
               /\ UNCHANGED <<zones, pzones>>
               /\ Emit(n, flag,
                       [NoEvent EXCEPT !.OriginNode = cfg[n].NodeID, !.Op = "delete",
                                       !.Name = name, !.Type = recordType,
                                       !.Version = version, !.EventTime = t])

handleZoneByName(n, zone0, req, t) ==
    LET zone == normalizeName(zone0)
        ttl == IF req.SOATTL = 0 THEN cfg[n].DefaultTTL ELSE req.SOATTL
        reqNS == normalizeNames(req.NS)
        existing == getZone(zones[n], zone)
        ns == IF Len(reqNS) # 0 THEN reqNS
              ELSE IF existing # {} /\ Len((CHOOSE e \in existing : TRUE).NS) > 0
                   THEN (CHOOSE e \in existing : TRUE).NS
                   ELSE defaultNSForZone(cfg[n])
        z == [Zone |-> zone, NS |-> ns, SOATTL |-> ttl, Serial |-> Unix(t), UpdatedAt |-> t]
        zs == ZoneStep(n, z)
    IN /\ now' = [now EXCEPT ![n] = t]
       /\ pre' = Snapshot(n)
       /\ UNCHANGED cfg
       /\ IF zone = Root \/ Len(ns) = 0
          THEN RejectZone(n, "zoneput", 400, zone, reqNS)
          ELSE /\ zones' = [zones EXCEPT ![n] = zs.zones]
               /\ pzones' = [pzones EXCEPT ![n] = zs.pzones]
               /\ last' = [NoLast EXCEPT !.op = "zoneput", !.node = n, !.zone = z,
                                         !.ns = reqNS,
                                         !.version = z.Serial, !.zcall = TRUE,
                                         !.zapplied = zs.applied, !.status = 200,
                                         !.pwrites = Attempts(FALSE, zs.tried)]
               /\ UNCHANGED <<records, precords>>
               /\ Emit(n, req.Propagate,
                       [NoEvent EXCEPT !.OriginNode = cfg[n].NodeID, !.Op = "zone",
                                       !.Zone = zone, !.Version = z.Serial, !.EventTime = t,
                                       !.HasZoneConfig = TRUE, !.ZoneConfig = z])

handleSyncEvent(n, ev0, t) ==
    LET ev == [ev0 EXCEPT !.Version = IF @ = 0 THEN UnixNano(t) ELSE @]
        norm == normalizeRecordInput(n, ev.Record)
        rec == [norm.rec EXCEPT !.Version = ev.Version,
                                !.TTL = IF @ = 0 THEN cfg[n].DefaultTTL ELSE @,
                                !.Source = ev.OriginNode,
                                !.UpdatedAt = ev.EventTime]
        evType == ToUpper(TrimSpace(ev.Type))
        done(op, r, applied, z, zcall, zapplied, tried) ==
            last' = [NoLast EXCEPT !.op = op, !.node = n, !.rec = r, !.name = ev.Name,
                                   !.type = evType, !.version = ev.Version, !.zone = z,
                                   !.applied = applied, !.zcall = zcall,
                                   !.zapplied = zapplied, !.status = 200,
                                   !.pwrites = tried]
    IN /\ now' = [now EXCEPT ![n] = t]
       /\ pre' = Snapshot(n)
       /\ UNCHANGED cfg
       /\ CASE ev.Op \in {"set", "add", "remove"} /\ (~ev.HasRecord \/ norm.err # "") ->
                 /\ last' = [NoLast EXCEPT !.op = "sync-" \o ev.Op, !.node = n, !.status = 400]
                 /\ UNCHANGED <<records, zones, precords, pzones>>
            [] ev.Op = "set" /\ ev.HasRecord /\ norm.err = "" ->
                 \E o \in setRecord(records[n], rec) :
                    LET ez == ensureZoneDefaults(n, [NoZone EXCEPT !.Zone = rec.Zone], t)
                        zs == ZoneStep(n, ez.z)
                        rs == RecordStep(n, o.applied,
                                         persistUpsertRecord(precords[n], rec))
                    IN /\ records' = [records EXCEPT ![n] = o.recs]
                       /\ precords' = [precords EXCEPT ![n] = rs.rows]
                       /\ zones' = [zones EXCEPT ![n] = IF ez.err THEN @ ELSE zs.zones]
                       /\ pzones' = [pzones EXCEPT ![n] = IF ez.err THEN @ ELSE zs.pzones]
                       /\ done("sync-set", rec, o.applied, ez.z, ~ez.err, ~ez.err /\ zs.applied,
                               Attempts(rs.tried, ~ez.err /\ zs.tried))
            [] ev.Op = "add" /\ ev.HasRecord /\ norm.err = "" ->
                 LET o == addRecord(records[n], rec)
                     rs == RecordStep(n, o.applied, persistAddRecord(precords[n], rec))
                 IN /\ records' = [records EXCEPT ![n] = o.recs]
                    /\ precords' = [precords EXCEPT ![n] = rs.rows]
                    /\ done("sync-add", rec, o.applied, NoZone, FALSE, FALSE,
                            Attempts(rs.tried, FALSE))
                    /\ UNCHANGED <<zones, pzones>>
            [] ev.Op = "remove" /\ ev.HasRecord /\ norm.err = "" ->
                 LET o == removeRecord(records[n], norm.rec, ev.Version)
                     rs == RecordStep(n, o.applied,
                                      persistRemoveRecord(precords[n], norm.rec, ev.Version))
                 IN /\ records' = [records EXCEPT ![n] = o.recs]
                    /\ precords' = [precords EXCEPT ![n] = rs.rows]
                    /\ done("sync-remove", norm.rec, o.applied, NoZone, FALSE, FALSE,
                            Attempts(rs.tried, FALSE))
                    /\ UNCHANGED <<zones, pzones>>
            [] ev.Op = "delete" ->
                 LET o == deleteRecordByType(records[n], ev.Name, evType, ev.Version)
                     rs == RecordStep(n, o.applied,
                                      persistDeleteRecord(precords[n], normalizeName(ev.Name),
                                                          evType, ev.Version))
                 IN IF evType \notin {"", "A", "AAAA", "TXT", "CNAME", "MX"}
                    THEN /\ last' = [NoLast EXCEPT !.op = "sync-delete", !.node = n,
                                                   !.status = 400]
                         /\ UNCHANGED <<records, zones, precords, pzones>>
                    ELSE /\ records' = [records EXCEPT ![n] = o.recs]
                         /\ precords' = [precords EXCEPT ![n] = rs.rows]
                         /\ done("sync-delete", NoRecord, o.applied, NoZone, FALSE, FALSE,
                                 Attempts(rs.tried, FALSE))
                         /\ UNCHANGED <<zones, pzones>>
            [] ev.Op = "zone" ->
                 IF ~ev.HasZoneConfig
                 THEN /\ last' = [NoLast EXCEPT !.op = "sync-zone", !.node = n, !.status = 400]
                      /\ UNCHANGED <<records, zones, precords, pzones>>
                 ELSE LET zs == ZoneStep(n, ev.ZoneConfig)
                      IN /\ zones' = [zones EXCEPT ![n] = zs.zones]
                         /\ pzones' = [pzones EXCEPT ![n] = zs.pzones]
                         /\ done("sync-zone", NoRecord, FALSE, ev.ZoneConfig, TRUE, zs.applied,
                                 Attempts(FALSE, zs.tried))
                         /\ UNCHANGED <<records, precords>>
            [] OTHER ->
                 /\ last' = [NoLast EXCEPT !.op = "sync-other", !.node = n, !.status = 400]
                 /\ UNCHANGED <<records, zones, precords, pzones>>

----------------------------------------------------------------------------
(* Unit-level use of the store, as the package's tests call it *)

ARec(name, ip, ttl, version, source) ==
    [NoRecord EXCEPT !.Name = name, !.Type = "A", !.IP = ip, !.TTL = ttl,
                     !.Zone = ZoneCom, !.UpdatedAt = version, !.Version = version,
                     !.Source = source]

TXTRec(name, text, ttl, version, source) ==
    [NoRecord EXCEPT !.Name = name, !.Type = "TXT", !.Text = text, !.TTL = ttl,
                     !.Zone = ZoneCom, !.UpdatedAt = version, !.Version = version,
                     !.Source = source]

UnitRecords ==
    {ARec(NameApp, ip, 30, v, "n1") : ip \in IPv4, v \in Versions}
    \cup {TXTRec(NameApp, "hello", 30, v, "n1") : v \in Versions}

UnitZones ==
    {[Zone |-> ZoneCom, NS |-> ns, SOATTL |-> 60, Serial |-> s, UpdatedAt |-> s] :
        ns \in {<<NS1>>, <<NS2>>}, s \in Versions}

InitUnit ==
    /\ records = [n \in Nodes |-> {}]
    /\ zones = [n \in Nodes |-> {}]
    /\ precords = [n \in Nodes |-> {}]
    /\ pzones = [n \in Nodes |-> {}]
    /\ cfg = [n \in Nodes |-> [NoCfg EXCEPT !.NodeID = n]]
    /\ now = [n \in Nodes |-> 0]
    /\ inflight = {}
    /\ pre = [records |-> {}, zones |-> {}, precords |-> {}, pzones |-> {}]
    /\ last = NoLast
    /\ aux = <<>>

StoreSet(n, rec) ==
    /\ \E o \in setRecord(records[n], rec) :
          /\ records' = [records EXCEPT ![n] = o.recs]
          /\ last' = [NoLast EXCEPT !.op = "set", !.node = n, !.rec = rec,
                                    !.version = rec.Version, !.applied = o.applied]
    /\ pre' = Snapshot(n)
    /\ UNCHANGED <<zones, precords, pzones, cfg, now, inflight>>

StoreAdd(n, rec) ==
    /\ LET o == addRecord(records[n], rec)
       IN /\ records' = [records EXCEPT ![n] = o.recs]
          /\ last' = [NoLast EXCEPT !.op = "add", !.node = n, !.rec = rec,
                                    !.version = rec.Version, !.applied = o.applied]
    /\ pre' = Snapshot(n)
    /\ UNCHANGED <<zones, precords, pzones, cfg, now, inflight>>

StoreRemove(n, rec, version) ==
    /\ LET o == removeRecord(records[n], rec, version)
       IN /\ records' = [records EXCEPT ![n] = o.recs]
          /\ last' = [NoLast EXCEPT !.op = "remove", !.node = n, !.rec = rec,
                                    !.version = version, !.applied = o.applied]
    /\ pre' = Snapshot(n)
    /\ UNCHANGED <<zones, precords, pzones, cfg, now, inflight>>

StoreDelete(n, name, recordType, version) ==
    /\ LET o == deleteRecordByType(records[n], name, recordType, version)
       IN /\ records' = [records EXCEPT ![n] = o.recs]
          /\ last' = [NoLast EXCEPT !.op = "delete", !.node = n, !.name = name,
                                    !.type = recordType, !.version = version,
                                    !.applied = o.applied]
    /\ pre' = Snapshot(n)
    /\ UNCHANGED <<zones, precords, pzones, cfg, now, inflight>>

StoreUpsertZone(n, z) ==
    /\ LET o == upsertZone(zones[n], z)
       IN /\ zones' = [zones EXCEPT ![n] = o.zones]
          /\ last' = [NoLast EXCEPT !.op = "zone", !.node = n, !.zone = z,
                                    !.version = z.Serial, !.zcall = TRUE,
                                    !.zapplied = o.applied]
    /\ pre' = Snapshot(n)
    /\ UNCHANGED <<records, precords, pzones, cfg, now, inflight>>

UnitSet == \E rec \in UnitRecords : StoreSet(U, rec) /\ UNCHANGED aux
UnitAdd == \E rec \in UnitRecords : StoreAdd(U, rec) /\ UNCHANGED aux
UnitRemove == \E rec \in UnitRecords : StoreRemove(U, rec, rec.Version) /\ UNCHANGED aux
UnitDelete ==
    \E t \in {"", "A", "TXT"}, v \in Versions : StoreDelete(U, NameApp, t, v) /\ UNCHANGED aux
UnitUpsertZone == \E z \in UnitZones : StoreUpsertZone(U, z) /\ UNCHANGED aux

NextStore ==
    \/ UnitSet
    \/ UnitAdd
    \/ UnitRemove
    \/ UnitDelete
    \/ UnitUpsertZone

SpecStore == InitUnit /\ [][NextStore]_vars

----------------------------------------------------------------------------
(* Claims about single store operations, checked under SpecStore *)

RRset(recs, name, type) == {m \in recs : m.Name = name /\ m.Type = type}

\* C4: upsert_record_set(r) on an RRset holding a member newer than r returns
\* applied=false and leaves every record of the store exactly as it was.
C4_SetRejectLeavesStore ==
    (/\ last.op = "set"
     /\ \E m \in RRset(pre.records, last.rec.Name, last.rec.Type) :
            m.Version > last.rec.Version)
    => (~last.applied /\ records[U] = pre.records)

\* C8: delete_by_name_type(name, type_filter, version) removes exactly the
\* members at name (of the filtered type, if given) whose version <= version,
\* keeps every newer member, returns true iff a member was removed; a delete
\* below the version of the only stored member returns false and keeps it.
C8_DeleteByNameType ==
    last.op = "delete" =>
        LET target == {m \in pre.records :
                          /\ m.Name = last.name
                          /\ (last.type = "" \/ m.Type = last.type)}
            old == {m \in target : m.Version <= last.version}
        IN /\ records[U] = pre.records \ old
           /\ last.applied <=> (old # {})
           /\ \A m \in target : m.Version > last.version => m \in records[U]
           /\ \A m \in target :
                 (target = {m} /\ last.version < m.Version)
                     => (~last.applied /\ m \in records[U])

C8_Witness ==
    /\ last.op = "delete"
    /\ last.applied
    /\ last.type = "A"
    /\ \E m \in records[U] : m.Name = last.name /\ m.Type = "A" /\ m.Version > last.version
    /\ \E m \in records[U] : m.Name = last.name /\ m.Type = "TXT" /\ m.Version <= last.version
    /\ \E m \in pre.records : m.Type = "A" /\ m \notin records[U]

\* the value a record is identified by within its name and type
ValueOf(r) ==
    CASE r.Type \in {"A", "AAAA"} -> <<r.IP>>
      [] r.Type = "TXT" -> <<r.Text>>
      [] r.Type = "CNAME" -> <<r.Target>>
      [] OTHER -> <<r.Priority, r.Target>>

\* C25: removeRecord(r, version) removes exactly the stored member with the
\* name, type and value of r when its version is at most version, and
\* otherwise nothing; every other member of the RRset and every other record
\* stays as it was, and an A query afterwards is answered with exactly the A
\* members that remain.
C25_RemoveExactlyOne ==
    last.op = "remove" =>
        LET hit == {p \in pre.records : /\ p.Name = last.rec.Name
                                        /\ p.Type = last.rec.Type
                                        /\ ValueOf(p) = ValueOf(last.rec)}
            gone == {p \in hit : p.Version <= last.version}
        IN /\ Cardinality(hit) <= 1
           /\ records[U] = pre.records \ gone
           /\ last.applied <=> gone # {}
           /\ \A resp \in resolveDNS(records[U], zones[U],
                                     <<[Name |-> last.rec.Name, Qtype |-> "A"]>>) :
                 /\ Len(resp.Answer) = Cardinality(RRset(records[U], last.rec.Name, "A"))
                 /\ \A r \in RRset(records[U], last.rec.Name, "A") :
                       \E i \in 1..Len(resp.Answer) : resp.Answer[i].A = r.IP

C25_Witness ==
    /\ last.op = "remove"
    /\ last.applied
    /\ last.rec.IP = "192.0.2.1"
    /\ Cardinality(RRset(pre.records, NameApp, "A")) = 2
    /\ {r.IP : r \in RRset(records[U], NameApp, "A")} = {"192.0.2.2"}
    /\ RRset(records[U], NameApp, "TXT") # {}

----------------------------------------------------------------------------
(* Writes to one record identity arriving in any order *)

\* the identity the writes are about: (app.example.com., A, 192.0.2.1)
KeyRec(ttl, version) == ARec(NameApp, "192.0.2.1", ttl, version, "n1")

Track(op, version, ttl) ==
    aux' = [used |-> aux.used \cup {version},
            top |-> IF \A v \in aux.used : v < version
                    THEN [op |-> op, version |-> version, ttl |-> ttl]
                    ELSE aux.top]

InitLWW ==
    /\ records = [n \in Nodes |-> {}]
    /\ zones = [n \in Nodes |-> {}]
    /\ precords = [n \in Nodes |-> {}]
    /\ pzones = [n \in Nodes |-> {}]
    /\ cfg = [n \in Nodes |-> [NoCfg EXCEPT !.NodeID = n]]
    /\ now = [n \in Nodes |-> 0]
    /\ inflight = {}
    /\ pre = [records |-> {}, zones |-> {}, precords |-> {}, pzones |-> {}]
    /\ last = NoLast
    /\ aux = [used |-> {}, top |-> [op |-> "none", version |-> 0, ttl |-> 0]]

Fresh == Versions \ aux.used

LWWSet == \E v \in Fresh, ttl \in TTLs : StoreSet(U, KeyRec(ttl, v)) /\ Track("set", v, ttl)
LWWAdd == \E v \in Fresh, ttl \in TTLs : StoreAdd(U, KeyRec(ttl, v)) /\ Track("add", v, ttl)
LWWRemove == \E v \in Fresh : StoreRemove(U, KeyRec(0, v), v) /\ Track("remove", v, 0)
LWWDelete ==
    \E v \in Fresh, t \in {"", "A"} : StoreDelete(U, NameApp, t, v) /\ Track("delete", v, 0)

NextLWW ==
    \/ LWWSet
    \/ LWWAdd
    \/ LWWRemove
    \/ LWWDelete

SpecLWW == InitLWW /\ [][NextLWW]_vars

\* C2: after writes with pairwise distinct versions to one identity, in any
\* arrival order, the store holds for that identity what the highest-version
\* write alone leaves: its fields if it is an add/set, nothing if it is a
\* remove/delete.
C2_HighestVersionWins ==
    aux.used # {} =>
        LET held == Lookup(records[U], recordKey(KeyRec(0, 0)))
        IN IF aux.top.op \in {"set", "add"}
           THEN held = {KeyRec(aux.top.ttl, aux.top.version)}
           ELSE held = {}

----------------------------------------------------------------------------
(* Two upserts of one identity applied in both orders *)

KeyUnique(recs) == \A p, q \in recs : recordKey(p) = recordKey(q) => p = q

PairStores == {recs \in SUBSET UnitRecords : KeyUnique(recs)}

InitPair ==
    /\ \E s0 \in PairStores :
          /\ records = [n \in Nodes |-> s0]
          /\ pre = [records |-> s0, zones |-> {}, precords |-> {}, pzones |-> {}]
    /\ zones = [n \in Nodes |-> {}]
    /\ precords = [n \in Nodes |-> {}]
    /\ pzones = [n \in Nodes |-> {}]
    /\ cfg = [n \in Nodes |-> [NoCfg EXCEPT !.NodeID = n]]
    /\ now = [n \in Nodes |-> 0]
    /\ inflight = {}
    /\ last = NoLast
    /\ \E kind \in {"set", "add"}, v1, v2 \in Versions :
          /\ v1 < v2
          /\ aux = [kind |-> kind, v1 |-> v1, v2 |-> v2, init |-> pre.records,
                    step |-> [n \in Nodes |-> 0], ret |-> [n \in Nodes |-> <<>>]]

\* n1 applies r@v1 then r@v2, n2 applies r@v2 then r@v1; r@v1 carries the
\* default ttl and r@v2 the other one
PairArg(n, k) ==
    IF (n = "n1") = (k = 1) THEN KeyRec(DefaultTTL, aux.v1) ELSE KeyRec(30, aux.v2)

PairUpsert(n) ==
    /\ aux.step[n] < 2
    /\ LET rec == PairArg(n, aux.step[n] + 1)
       IN /\ IF aux.kind = "set" THEN StoreSet(n, rec) ELSE StoreAdd(n, rec)
          /\ aux' = [aux EXCEPT !.step[n] = @ + 1,
                                !.ret[n] = Append(@, last'.applied)]

NextPair == \E n \in Nodes : PairUpsert(n)

SpecPair == InitPair /\ [][NextPair]_vars

\* nothing the store held before the two upserts is newer than v2
PairFreshEnough ==
    \A m \in aux.init :
        (/\ m.Name = NameApp
         /\ m.Type = "A"
         /\ (aux.kind = "add" => recordKey(m) = recordKey(KeyRec(0, 0))))
        => m.Version <= aux.v2

\* C3: for a record r and versions v1 < v2, upsert(r@v1) then upsert(r@v2) and
\* upsert(r@v2) then upsert(r@v1) both leave the store holding the v2 state
\* of the identity, and the stale upsert returns applied=false.
C3_UpsertOrderIrrelevant ==
    \A n \in Nodes :
        (aux.step[n] = 2 /\ PairFreshEnough) =>
            /\ Lookup(records[n], recordKey(KeyRec(0, 0))) = {KeyRec(30, aux.v2)}
            /\ n = "n2" => aux.ret[n] = <<TRUE, FALSE>>

C3_Witness ==
    /\ aux.step = [n \in Nodes |-> 2]
    /\ PairFreshEnough
    /\ aux.kind = "set"
    /\ aux.ret["n2"] = <<TRUE, FALSE>>
    /\ \E m \in aux.init : m.Type = "A" /\ m.Version > aux.v1

----------------------------------------------------------------------------
(* The persistence layer called directly, as its tests call it *)

\* records as a caller hands them over: names without the trailing dot
PersistRecords ==
    {[r EXCEPT !.Name = Raw(r.Name.l), !.Zone = Raw(r.Zone.l)] :
        r \in {u \in UnitRecords : u.Type = "A"}}

InitPersist ==
    /\ records = [n \in Nodes |-> {}]
    /\ zones = [n \in Nodes |-> {}]
    /\ precords = [n \in Nodes |-> {}]
    /\ pzones = [n \in Nodes |-> {}]
    /\ cfg = [n \in Nodes |-> [NoCfg EXCEPT !.NodeID = n]]
    /\ now = [n \in Nodes |-> 0]
    /\ inflight = {}
    /\ pre = [records |-> {}, zones |-> {}, precords |-> {}, pzones |-> {}]
    /\ last = NoLast
    /\ aux = <<>>

PersistStep(op, rec, version, rows) ==
    /\ precords' = [precords EXCEPT ![U] = rows]
    /\ pre' = Snapshot(U)
    /\ last' = [NoLast EXCEPT !.op = op, !.node = U, !.rec = rec, !.version = version]
    /\ UNCHANGED <<records, zones, pzones, cfg, now, inflight, aux>>

PersistUpsert ==
    \E rec \in PersistRecords :
        PersistStep("pupsert", rec, rec.Version, persistUpsertRecord(precords[U], rec))

PersistAdd ==
    \E rec \in PersistRecords :
        PersistStep("padd", rec, rec.Version, persistAddRecord(precords[U], rec))

PersistRemove ==
    \E rec \in PersistRecords :
        PersistStep("premove", rec, rec.Version, persistRemoveRecord(precords[U], rec, rec.Version))

PersistDelete ==
    \E v \in Versions, t \in {"", "a"} :
        PersistStep("pdelete", [NoRecord EXCEPT !.Name = Raw(NameApp.l), !.Type = t], v,
                    persistDeleteRecord(precords[U], Raw(NameApp.l), t, v))

PersistLoad ==
    /\ \E st \in loadIntoStore(pzones[U], precords[U]) :
          /\ records' = [records EXCEPT ![U] = st.records]
          /\ zones' = [zones EXCEPT ![U] = st.zones]
    /\ pre' = Snapshot(U)
    /\ last' = [NoLast EXCEPT !.op = "load", !.node = U]
    /\ UNCHANGED <<precords, pzones, cfg, now, inflight, aux>>

NextPersist ==
    \/ PersistUpsert
    \/ PersistAdd
    \/ PersistRemove
    \/ PersistDelete
    \/ PersistLoad

SpecPersist == InitPersist /\ [][NextPersist]_vars

\* the stored rows of the (name, type) of the last upsert that are newer than it
NewerRows ==
    LET rec == normalizeRecord(last.rec)
    IN {row \in pre.precords :
           row.Name = rec.Name /\ row.Type = rec.Type /\ row.Version > rec.Version}

\* C9: a persistence upsert with a version below a stored row's version for
\* the same (name, type) changes no row, and a reload into an empty store
\* then returns the higher-version value.
C9_PersistStaleUpsertIgnored ==
    (last.op = "pupsert" /\ NewerRows # {}) =>
        /\ precords[U] = pre.precords
        /\ \A st \in loadIntoStore(pzones[U], precords[U]) :
              \A row \in NewerRows :
                  \E r \in st.records :
                      /\ recordKey(r) = recordKey(row)
                      /\ r.Version = row.Version
                      /\ r.IP = row.IP
                      /\ r.Text = row.Text
                      /\ r.TTL = row.TTL

C9_Witness ==
    /\ last.op = "pupsert"
    /\ \E row \in NewerRows : row.Type = "A" /\ row.IP # last.rec.IP

----------------------------------------------------------------------------
(* Queries against a loaded store *)

DNSRecords ==
    {ARec(NameApp, "192.0.2.1", 30, 1, "n1"),
     ARec(NameApp, "192.0.2.2", 30, 1, "n1"),
     [ARec(NameApp, "2001:db8::1", 30, 1, "n1") EXCEPT !.Type = "AAAA"],
     [ARec(NameApp, "2001:db8::2", 30, 1, "n1") EXCEPT !.Type = "AAAA"],
     TXTRec(NameApi, "hello", 30, 1, "n1"),
     [NoRecord EXCEPT !.Name = NameApi, !.Type = "CNAME", !.Target = NameApp, !.TTL = 30,
                      !.Zone = ZoneSvc, !.UpdatedAt = 1, !.Version = 1, !.Source = "n1"],
     [NoRecord EXCEPT !.Name = ZoneCom, !.Type = "MX", !.Target = Mail0, !.Priority = 10,
                      !.TTL = 30, !.Zone = ZoneCom, !.UpdatedAt = 1, !.Version = 1,
                      !.Source = "n1"],
     [NoRecord EXCEPT !.Name = ZoneCom, !.Type = "MX", !.Target = NS1, !.Priority = 10,
                      !.TTL = 30, !.Zone = ZoneCom, !.UpdatedAt = 1, !.Version = 1,
                      !.Source = "n1"],
     [NoRecord EXCEPT !.Name = ZoneCom, !.Type = "MX", !.Target = NS1, !.Priority = 5,
                      !.TTL = 30, !.Zone = ZoneCom, !.UpdatedAt = 1, !.Version = 1,
                      !.Source = "n1"],
     ARec(NameNet, "192.0.2.1", 30, 1, "n1")}

DNSZones ==
    {[Zone |-> ZoneCom, NS |-> <<NS1, NS2>>, SOATTL |-> 60, Serial |-> 1, UpdatedAt |-> 1],
     [Zone |-> ZoneSvc, NS |-> <<NS2>>, SOATTL |-> 60, Serial |-> 1, UpdatedAt |-> 1]}

MaxStored == 2

QNames == {NameApp, NameApi, ZoneCom, ZoneSvc, NameNet, Mail0}
QTypes == {"A", "AAAA", "TXT", "CNAME", "MX", "NS", "SOA", "ANY", "SRV"}

NoResp ==
    [Rcode |-> "", Authoritative |-> FALSE, Question |-> <<>>, Answer |-> <<>>, Ns |-> <<>>]

InitDNS ==
    /\ \E recs \in SUBSET DNSRecords, zs \in SUBSET DNSZones :
          /\ Cardinality(recs) <= MaxStored
          /\ records = [n \in Nodes |-> recs]
          /\ zones = [n \in Nodes |-> zs]
    /\ precords = [n \in Nodes |-> {}]
    /\ pzones = [n \in Nodes |-> {}]
    /\ cfg = [n \in Nodes |-> [NoCfg EXCEPT !.NodeID = n]]
    /\ now = [n \in Nodes |-> 0]
    /\ inflight = {}
    /\ pre = [records |-> {}, zones |-> {}, precords |-> {}, pzones |-> {}]
    /\ last = NoLast
    /\ aux = NoResp

handleDNS(question) ==
    /\ \E resp \in resolveDNS(records[U], zones[U], question) : aux' = resp
    /\ last' = [NoLast EXCEPT !.op = "query", !.question = question, !.writes = 1]
    /\ pre' = Snapshot(U)
    /\ UNCHANGED <<records, zones, precords, pzones, cfg, now, inflight>>

Query == \E name \in QNames, t \in QTypes : handleDNS(<<[Name |-> name, Qtype |-> t]>>)

QueryNone == handleDNS(<<>>)

\* a question whose name is not in canonical form
QueryRaw == \E t \in {"A", "SRV"} : handleDNS(<<[Name |-> Raw(NameApp.l), Qtype |-> t]>>)

QueryTwo ==
    \E t \in {"A", "TXT"} :
        handleDNS(<<[Name |-> NameApi, Qtype |-> t], [Name |-> NameApp, Qtype |-> "A"]>>)

NextDNS ==
    \/ Query
    \/ QueryNone
    \/ QueryRaw
    \/ QueryTwo

SpecDNS == InitDNS /\ [][NextDNS]_vars

\* C10: a query of any type at a name inside a managed zone with an empty
\* answer set gets NXDOMAIN exactly when has_name(name) is false and NOERROR
\* (with the empty answer) otherwise, and the zone SOA is in the authority
\* section in both cases.
C10_NegativeAnswer ==
    (/\ last.op = "query"
     /\ Len(aux.Question) = 1
     /\ bestZone(zones[U], aux.Question[1].Name) # {}
     /\ aux.Answer = <<>>)
    => /\ (aux.Rcode = "NXDOMAIN") <=> ~hasName(records[U], aux.Question[1].Name)
       /\ hasName(records[U], aux.Question[1].Name) => aux.Rcode = "NOERROR"
       /\ \E z \in bestZone(zones[U], aux.Question[1].Name) : aux.Ns = <<soaForZone(z)>>

\* the stored members of the RRset the last single-question query asked for
\* C22: a DNS query, whatever its type and whatever the store holds, gets
\* exactly one response message, with the authoritative bit set, the
\* question section of the request, and rcode NOERROR, NXDOMAIN or REFUSED.
C22_OneAuthoritativeResponse ==
    last.op = "query" =>
        /\ last.writes = 1
        /\ aux.Authoritative
        /\ aux.Question = last.question
        /\ aux.Rcode \in {"NOERROR", "NXDOMAIN", "REFUSED"}

C22_Witness ==
    /\ last.op = "query"
    /\ last.writes = 1
    /\ last.question = <<[Name |-> Raw(NameApp.l), Qtype |-> "SRV"]>>
    /\ aux.Question = last.question
    /\ aux.Rcode = "NXDOMAIN"
    /\ aux.Authoritative
    /\ records[U] # {}

\* the stored zones whose name is a label-wise suffix of name
SuffixZones(zs, name) ==
    {z \in zs : /\ Len(z.Zone.l) <= Len(name.l)
                /\ SubSeq(name.l, Len(name.l) - Len(z.Zone.l) + 1, Len(name.l)) = z.Zone.l}

\* C23: bestZone(name) is, among the stored zones whose name is a label-wise
\* suffix of name, the one with the most labels, and none exactly when no
\* stored zone is such a suffix; an SOA query is answered with the SOA of
\* that zone (api.svc.example.com. with svc.example.com. when example.com.
\* is stored as well).
C23_BestZoneLongestSuffix ==
    /\ \A name \in QNames :
          LET suff == SuffixZones(zones[U], name)
          IN bestZone(zones[U], name) =
                {z \in suff : \A o \in suff : Len(o.Zone.l) <= Len(z.Zone.l)}
    /\ (/\ last.op = "query"
        /\ Len(last.question) = 1
        /\ last.question[1].Qtype = "SOA") =>
          LET suff == SuffixZones(zones[U], normalizeName(last.question[1].Name))
          IN IF suff = {} THEN aux.Answer = <<>>
             ELSE /\ Len(aux.Answer) = 1
                  /\ \E z \in suff :
                        /\ \A o \in suff : Len(o.Zone.l) <= Len(z.Zone.l)
                        /\ aux.Answer[1] = soaForZone(z)

C23_Witness ==
    /\ last.op = "query"
    /\ last.question = <<[Name |-> NameApi, Qtype |-> "SOA"]>>
    /\ {z.Zone : z \in zones[U]} = {ZoneCom, ZoneSvc}
    /\ Len(aux.Answer) = 1
    /\ aux.Answer[1].Name = ZoneSvc
    /\ aux.Rcode = "NOERROR"

\* C27: an MX query returns every stored MX member of the name, once each,
\* in ascending priority with ties in ascending target order; the response
\* to a repeated query of the same store has the same order.
C27_MXSortedNoShuffle ==
    (last.op = "query" /\ Len(last.question) = 1 /\ last.question[1].Qtype = "MX") =>
        LET stored == RRset(records[U], last.question[1].Name, "MX")
            ans == aux.Answer
        IN /\ Len(ans) = Cardinality(stored)
           /\ {[Target |-> ans[i].Target, Preference |-> ans[i].Preference] :
                   i \in 1..Len(ans)}
                 = {[Target |-> r.Target, Preference |-> r.Priority] : r \in stored}
           /\ \A i \in 1..Len(ans) : ans[i].Rrtype = "MX"
           /\ \A i, j \in 1..Len(ans) :
                  i < j => \/ ans[i].Preference < ans[j].Preference
                           \/ /\ ans[i].Preference = ans[j].Preference
                              /\ NameRank(ans[i].Target) < NameRank(ans[j].Target)
           /\ \A other \in resolveDNS(records[U], zones[U], last.question) :
                  other.Answer = ans

C27_Witness ==
    /\ last.op = "query"
    /\ last.question = <<[Name |-> ZoneCom, Qtype |-> "MX"]>>
    /\ Len(aux.Answer) = 2
    /\ aux.Answer[1].Preference = aux.Answer[2].Preference
    /\ aux.Answer[1].Target = Mail0
    /\ aux.Answer[2].Target = NS1

C27_WitnessPriority ==
    /\ last.op = "query"
    /\ last.question = <<[Name |-> ZoneCom, Qtype |-> "MX"]>>
    /\ Len(aux.Answer) = 2
    /\ aux.Answer[1].Preference = 5
    /\ aux.Answer[1].Target = NS1
    /\ aux.Answer[2].Target = Mail0

\* C28: an A, AAAA or TXT query at a name holding records of the queried
\* type is answered with records of that type only; when the name holds none
\* of that type but holds a CNAME, the answer is exactly the CNAME record(s)
\* with rcode NOERROR; a CNAME query is answered with CNAME records only.
C28_CNAMEFallback ==
    (last.op = "query" /\ Len(last.question) = 1
                       /\ last.question[1].Qtype \in {"A", "AAAA", "TXT", "CNAME"}) =>
        LET t == last.question[1].Qtype
            name == normalizeName(last.question[1].Name)
            own == RRset(records[U], name, t)
            alias == RRset(records[U], name, "CNAME")
            ans == aux.Answer
        IN /\ (t # "CNAME" /\ own # {}) =>
                  /\ Len(ans) = Cardinality(own)
                  /\ \A i \in 1..Len(ans) : ans[i].Rrtype = t
           /\ (t # "CNAME" /\ own = {} /\ alias # {}) =>
                  /\ aux.Rcode = "NOERROR"
                  /\ Len(ans) = Cardinality(alias)
                  /\ \A i \in 1..Len(ans) : ans[i].Rrtype = "CNAME" /\ ans[i].Name = name
                  /\ {ans[i].Target : i \in 1..Len(ans)} = {r.Target : r \in alias}
           /\ t = "CNAME" =>
                  /\ Len(ans) = Cardinality(alias)
                  /\ \A i \in 1..Len(ans) : ans[i].Rrtype = "CNAME"

C28_Witness ==
    /\ last.op = "query"
    /\ last.question = <<[Name |-> NameApi, Qtype |-> "AAAA"]>>
    /\ RRset(records[U], NameApi, "TXT") # {}
    /\ Len(aux.Answer) = 1
    /\ aux.Answer[1].Rrtype = "CNAME"
    /\ aux.Answer[1].Target = NameApp
    /\ aux.Rcode = "NOERROR"

C28_WitnessNoFallback ==
    /\ last.op = "query"
    /\ last.question = <<[Name |-> NameApp, Qtype |-> "CNAME"]>>
    /\ RRset(records[U], NameApp, "A") # {}
    /\ aux.Answer = <<>>
    /\ aux.Rcode = "NOERROR"

Asked == RRset(records[U], aux.Question[1].Name, aux.Question[1].Qtype)

\* C12: for a name with n >= 2 stored A (respectively AAAA) records, every
\* response to an A (respectively AAAA) query has exactly n answers, one per
\* stored address: no member dropped, none duplicated, whatever the shuffle.
C12_ShuffleKeepsMultiset ==
    (/\ last.op = "query"
     /\ Len(aux.Question) = 1
     /\ aux.Question[1].Qtype \in {"A", "AAAA"}
     /\ Cardinality(Asked) >= 2)
    => /\ Len(aux.Answer) = Cardinality(Asked)
       /\ \A r \in Asked :
             Cardinality({i \in 1..Len(aux.Answer) :
                             /\ aux.Answer[i].A = r.IP
                             /\ aux.Answer[i].Rrtype = r.Type
                             /\ aux.Answer[i].Name = r.Name
                             /\ aux.Answer[i].Ttl = r.TTL}) = 1

C12_Witness ==
    /\ last.op = "query"
    /\ Len(aux.Question) = 1
    /\ aux.Question[1].Qtype = "AAAA"
    /\ Cardinality(Asked) = 2
    /\ aux.Answer[1].A = "2001:db8::2"
    /\ aux.Rcode = "NOERROR"

----------------------------------------------------------------------------
(* One node driven through its HTTP surface *)

NoReq ==
    [IP |-> "", Type |-> "", Text |-> "", Target |-> EmptyName, Priority |-> 0,
     TTL |-> 0, Zone |-> EmptyName, Propagate |-> "absent"]

RecordReqs == {[NoReq EXCEPT !.Type = "A", !.IP = ip] : ip \in IPv4}

ZoneReqs ==
    {[NS |-> ns, SOATTL |-> 0, Propagate |-> "absent"] : ns \in {<<>>, <<NS2>>}}

ExtRecords ==
    {[NoRecord EXCEPT !.Name = Raw(NameApp.l), !.Type = "A", !.IP = "192.0.2.1"]}

ExtVersions == {1, MaxVersion}

ExtZones ==
    {[NoZone EXCEPT !.Zone = ZoneCom, !.NS = ns, !.SOATTL = 60, !.Serial = s] :
        ns \in {<<>>, <<NS2>>}, s \in ExtVersions}

\* events any holder of the sync token can POST
ExtEvents ==
    {[NoEvent EXCEPT !.OriginNode = "ext", !.Op = op, !.HasRecord = TRUE, !.Record = r,
                     !.Version = v] :
        op \in {"set", "add", "remove"}, r \in ExtRecords, v \in ExtVersions}
    \cup {[NoEvent EXCEPT !.OriginNode = "ext", !.Op = "delete", !.Name = NameApp,
                          !.Version = v] : v \in ExtVersions}
    \cup {[NoEvent EXCEPT !.OriginNode = "ext", !.Op = "zone", !.Zone = z.Zone,
                          !.Version = z.Serial, !.HasZoneConfig = TRUE, !.ZoneConfig = z] :
             z \in ExtZones}

\* every request is handled at an instant of its own
Later(n) == {t \in {now[n] + 1} : t <= MaxTime}

NodeCfgs(n, peers) ==
    {[NoCfg EXCEPT !.NodeID = n, !.Peers = peers, !.DefaultNS = ns] : ns \in {<<>>, <<NS1>>}}

InitNode ==
    /\ records = [n \in Nodes |-> {}]
    /\ zones = [n \in Nodes |-> {}]
    /\ precords = [n \in Nodes |-> {}]
    /\ pzones = [n \in Nodes |-> {}]
    /\ cfg \in {[n \in Nodes |-> c] : c \in NodeCfgs(U, {})}
    /\ now = [n \in Nodes |-> 0]
    /\ inflight = {}
    /\ pre = [records |-> {}, zones |-> {}, precords |-> {}, pzones |-> {}]
    /\ last = NoLast
    /\ aux = <<>>

\* process restart: a new store filled by loadIntoStore
Restart(n) ==
    /\ \E st \in loadIntoStore(pzones[n], precords[n]) :
          /\ records' = [records EXCEPT ![n] = st.records]
          /\ zones' = [zones EXCEPT ![n] = st.zones]
    /\ pre' = [records |-> {}, zones |-> {}, precords |-> precords[n], pzones |-> pzones[n]]
    /\ last' = [NoLast EXCEPT !.op = "restart", !.node = n]
    /\ UNCHANGED <<precords, pzones, cfg, now, inflight, aux>>

RecordPut(n) ==
    \E req \in RecordReqs, t \in Later(n) :
        handleRecordUpsert(n, NameApp, req, t) /\ UNCHANGED aux
RecordAdd(n) ==
    \E req \in RecordReqs, t \in Later(n) :
        handleRecordAdd(n, NameApp, req, t) /\ UNCHANGED aux
RecordRemove(n) ==
    \E req \in RecordReqs, t \in Later(n) :
        handleRecordRemove(n, NameApp, req, t) /\ UNCHANGED aux
RecordDelete(n) ==
    \E type \in {""}, t \in Later(n) :
        handleRecordDelete(n, NameApp, type, "absent", t) /\ UNCHANGED aux
ZonePut(n) ==
    \E req \in ZoneReqs, t \in Later(n) :
        handleZoneByName(n, ZoneCom, req, t) /\ UNCHANGED aux
SyncExternal(n) ==
    \E ev \in ExtEvents, t \in Later(n) :
        handleSyncEvent(n, ev, t) /\ UNCHANGED <<inflight, aux>>

NextNode ==
    \/ RecordPut(U)
    \/ RecordAdd(U)
    \/ RecordRemove(U)
    \/ RecordDelete(U)
    \/ ZonePut(U)
    \/ SyncExternal(U)
    \/ Restart(U)

SpecNode == InitNode /\ [][NextNode]_vars

----------------------------------------------------------------------------
(* One node whose database can refuse writes *)

Tables == {"records", "zones"}

InitDurable ==
    /\ records = [n \in Nodes |-> {}]
    /\ zones = [n \in Nodes |-> {}]
    /\ precords = [n \in Nodes |-> {}]
    /\ pzones = [n \in Nodes |-> {}]
    /\ cfg \in {[n \in Nodes |-> c] : c \in NodeCfgs(U, {})}
    /\ now = [n \in Nodes |-> 0]
    /\ inflight = {}
    /\ pre = [records |-> {}, zones |-> {}, precords |-> {}, pzones |-> {}]
    /\ last = NoLast
    /\ aux = <<>>

\* the database starts returning errors for some of its tables
DatabaseFault(n) ==
    /\ cfg[n].Failing = {}
    /\ \E f \in (SUBSET Tables) \ {{}} : cfg' = [cfg EXCEPT ![n].Failing = f]
    /\ pre' = Snapshot(n)
    /\ last' = [NoLast EXCEPT !.op = "fault", !.node = n]
    /\ UNCHANGED <<records, zones, precords, pzones, now, inflight, aux>>

NextDurable ==
    \/ RecordPut(U)
    \/ RecordAdd(U)
    \/ RecordRemove(U)
    \/ RecordDelete(U)
    \/ ZonePut(U)
    \/ SyncExternal(U)
    \/ DatabaseFault(U)

SpecDurable == InitDurable /\ [][NextDurable]_vars

\* writeJSON(w, http.StatusOK, rec) and writeJSON(w, http.StatusOK, z): the
\* body of a 200 is the value the handler built from the request
responseBody ==
    CASE last.op \in {"put", "add", "remove"} -> last.rec
      [] last.op = "zoneput" -> last.zone
      [] OTHER -> NoRecord

MutationOps ==
    {"put", "add", "remove", "delete", "zoneput",
     "sync-set", "sync-add", "sync-remove", "sync-delete", "sync-zone"}

\* the stores the record operation of the last request can have left, each
\* with the value the operation returned, computed on the store before it
StoreSaid ==
    CASE last.op \in {"put", "sync-set"} -> setRecord(pre.records, last.rec)
      [] last.op \in {"add", "sync-add"} -> {addRecord(pre.records, last.rec)}
      [] last.op \in {"remove", "sync-remove"} ->
           {removeRecord(pre.records, last.rec, last.version)}
      [] last.op \in {"delete", "sync-delete"} ->
           {deleteRecordByType(pre.records, last.name, last.type, last.version)}
      [] OTHER -> {[recs |-> pre.records, applied |-> FALSE]}

\* what the zone upsert of the last request returned, when it made one
ZoneSaid ==
    IF last.zcall THEN upsertZone(pre.zones, last.zone)
    ELSE [zones |-> pre.zones, applied |-> FALSE]

\* C29: on every mutation path (record PUT, add, remove, DELETE, zone PUT
\* and the sync operations set, add, remove, delete, zone) the persistence
\* write of an entity is attempted only when the store operation on it
\* returned applied=true; when the store returned false the table is not
\* written, and a refused request writes nothing.
C29_PersistOnlyWhenApplied ==
    last.op \in MutationOps =>
        LET n == last.node
            said == {o \in StoreSaid : o.recs = records[n]}
        IN IF last.status # 200
           THEN /\ last.pwrites = {}
                /\ precords[n] = pre.precords
                /\ pzones[n] = pre.pzones
           ELSE /\ said # {}
                /\ "records" \in last.pwrites => \A o \in said : o.applied
                /\ "zones" \in last.pwrites => ZoneSaid.applied
                /\ (\E o \in said : ~o.applied) =>
                       "records" \notin last.pwrites /\ precords[n] = pre.precords
                /\ ~ZoneSaid.applied =>
                       "zones" \notin last.pwrites /\ pzones[n] = pre.pzones

C29_Witness ==
    /\ last.op = "sync-set"
    /\ last.status = 200
    /\ cfg[U].Failing = {}
    /\ ~last.applied
    /\ last.zapplied
    /\ last.pwrites = {"zones"}
    /\ precords[U] = pre.precords
    /\ precords[U] # {}
    /\ pzones[U] # pre.pzones

\* C30: when the persistence write of a mutation the store accepted fails,
\* the memory keeps the change (records and zones are what the store
\* operations left: nothing is rolled back) and the client is answered 200
\* with the record (zone) of the request, which the memory now holds, as
\* when the write succeeds.
C30_PersistFailureNotSurfaced ==
    (last.op \in MutationOps /\ last.pwrites \cap cfg[last.node].Failing # {}) =>
        LET n == last.node
        IN /\ last.status = 200
           /\ \E o \in StoreSaid : o.recs = records[n] /\ o.applied = last.applied
           /\ zones[n] = ZoneSaid.zones
           /\ ("records" \in last.pwrites /\ last.op \in {"sync-set", "sync-add"})
                 => StoreNorm(last.rec) \in records[n]
           /\ ("records" \in last.pwrites /\ last.op \in {"put", "add"})
                 => StoreNorm(responseBody) \in records[n]
           /\ ("records" \in last.pwrites /\ last.op = "remove")
                 => Lookup(records[n], recordKey(StoreNorm(responseBody))) = {}
           /\ ("records" \in last.pwrites /\ last.op = "sync-remove")
                 => Lookup(records[n], recordKey(StoreNorm(last.rec))) = {}
           /\ ("zones" \in last.pwrites /\ last.op = "zoneput") =>
                 \E z \in zones[n] : /\ z.Zone = responseBody.Zone
                                      /\ z.Serial = responseBody.Serial
                                      /\ z.NS = responseBody.NS

C30_Witness ==
    /\ last.op = "put"
    /\ last.status = 200
    /\ cfg[U].Failing = Tables
    /\ last.pwrites = Tables
    /\ last.rec \in records[U]
    /\ last.rec \notin pre.records
    /\ last.rec \notin precords[U]
    /\ zones[U] # pre.zones
    /\ pzones[U] = pre.pzones
    /\ responseBody \in records[U]

----------------------------------------------------------------------------
(* Two nodes that are peers of one another *)

InitCluster ==
    /\ records = [n \in Nodes |-> {}]
    /\ zones = [n \in Nodes |-> {}]
    /\ precords = [n \in Nodes |-> {}]
    /\ pzones = [n \in Nodes |-> {}]
    /\ cfg = [n \in Nodes |-> [NoCfg EXCEPT !.NodeID = n, !.Peers = Nodes \ {n},
                                           !.DefaultNS = <<NS1>>]]
    /\ now = [n \in Nodes |-> 0]
    /\ inflight = {}
    /\ pre = [records |-> {}, zones |-> {}, precords |-> {}, pzones |-> {}]
    /\ last = NoLast
    /\ aux = <<>>

\* the nodes' clocks agree: every request in the cluster has an instant of
\* its own, later than all earlier ones
ClusterLater ==
    LET latest == CHOOSE t \in {now[n] : n \in Nodes} : \A m \in Nodes : now[m] <= t
    IN {t \in {latest + 1} : t <= MaxClusterTime}

ClusterReq == [NoReq EXCEPT !.Type = "A", !.IP = "192.0.2.1"]

ClusterPut(n) ==
    \E t \in ClusterLater : handleRecordUpsert(n, NameApp, ClusterReq, t) /\ UNCHANGED aux
ClusterAdd(n) ==
    \E t \in ClusterLater : handleRecordAdd(n, NameApp, ClusterReq, t) /\ UNCHANGED aux
ClusterRemove(n) ==
    \E t \in ClusterLater : handleRecordRemove(n, NameApp, ClusterReq, t) /\ UNCHANGED aux
ClusterDelete(n) ==
    \E t \in ClusterLater : handleRecordDelete(n, NameApp, "", "absent", t) /\ UNCHANGED aux
ClusterZonePut(n) ==
    \E t \in ClusterLater :
        /\ handleZoneByName(n, ZoneCom, [NS |-> <<NS2>>, SOATTL |-> 0, Propagate |-> "absent"], t)
        /\ UNCHANGED aux

\* a peer's POST /v1/sync/event arrives; it is delivered once
Deliver ==
    \E m \in inflight, t \in ClusterLater :
        /\ handleSyncEvent(m.to, m.ev, t)
        /\ inflight' = inflight \ {m}
        /\ UNCHANGED aux

NextCluster ==
    \/ \E n \in Nodes : ClusterPut(n)
    \/ \E n \in Nodes : ClusterAdd(n)
    \/ \E n \in Nodes : ClusterRemove(n)
    \/ \E n \in Nodes : ClusterDelete(n)
    \/ \E n \in Nodes : ClusterZonePut(n)
    \/ Deliver

SpecCluster == InitCluster /\ [][NextCluster]_vars

ConvRecords(n) ==
    {[key |-> recordKey(r), TTL |-> r.TTL, Version |-> r.Version] : r \in records[n]}

\* a zone one node holds and another does not is not counted as a difference
SameNS(n, m) ==
    \A z1 \in zones[n], z2 \in zones[m] : z1.Zone = z2.Zone => z1.NS = z2.NS

\* C1: once every emitted sync event has been delivered to every peer exactly
\* once, all nodes hold the same records (identity, value, ttl, version) and
\* the same name-server list for every zone.
C1_Convergence ==
    inflight = {} =>
        \A n, m \in Nodes : ConvRecords(n) = ConvRecords(m) /\ SameNS(n, m)

----------------------------------------------------------------------------
(* Claims about one node, checked under SpecNode *)

\* what GET /v1/records and GET /v1/zones show of a store, without timestamps
ObsRecord(r) ==
    [key |-> recordKey(r), TTL |-> r.TTL, Zone |-> r.Zone, Version |-> r.Version,
     Source |-> r.Source]

ObsZone(z) == [Zone |-> z.Zone, NS |-> z.NS, SOATTL |-> z.SOATTL, Serial |-> z.Serial]

Observable(recs, zs) ==
    [records |-> {ObsRecord(r) : r \in recs}, zones |-> {ObsZone(z) : z \in zs}]

\* C5: with no persistence write failing, loading the tables into an empty
\* store gives the zones and records (identity, value, ttl, zone, version,
\* source) the node holds in memory.
C5_ReloadEqualsMemory ==
    \A st \in loadIntoStore(pzones[U], precords[U]) :
        Observable(st.records, st.zones) = Observable(records[U], zones[U])

\* C6: every zone held in the store has a non-empty name-server list.
C6_ZoneHasNS ==
    \A n \in Nodes : \A z \in zones[n] : Len(z.NS) > 0

\* C7: the serial stored for a zone never decreases, and an upsert_zone with
\* a serial below the stored one returns applied=false and changes no zone.
C7_ZoneSerialNeverDecreases ==
    /\ \A z \in pre.zones :
          \E z2 \in zones[last.node] : z2.Zone = z.Zone /\ z2.Serial >= z.Serial
    /\ (/\ last.zcall
        /\ \E z \in pre.zones : /\ z.Zone = normalizeName(last.zone.Zone)
                                /\ z.Serial > last.zone.Serial)
       => (~last.zapplied /\ zones[last.node] = pre.zones)

C7_Witness ==
    /\ last.zcall
    /\ ~last.zapplied
    /\ last.op = "zoneput"
    /\ \E z \in zones[last.node] : /\ z.Zone = normalizeName(last.zone.Zone)
                                   /\ z.Serial > last.zone.Serial

\* C15: a zone create/update (zone PUT, or the zone upsert implied by a
\* record PUT/add) whose request carries no NS, for which no zone with a
\* non-empty NS list is in memory and DEFAULT_NS is empty, fails with 400; no
\* NS name is invented and neither zone nor record reaches store or tables.
C15_NoNSFallback ==
    (/\ last.op \in {"put", "add", "zoneput"}
     /\ last.ns = <<>>
     /\ cfg[U].DefaultNS = <<>>
     /\ ~\E z \in pre.zones : z.Zone = last.zone.Zone /\ Len(z.NS) > 0)
    => /\ last.status = 400
       /\ Snapshot(U) = pre

C15_Witness ==
    /\ last.op = "put"
    /\ last.status = 400
    /\ cfg[U].DefaultNS = <<>>
    /\ last.zone.Zone = ZoneCom
    /\ \E z \in pre.zones : z.Zone = ZoneCom /\ Len(z.NS) = 0
    /\ Snapshot(U) = pre

\* C19: a control-API record or zone upsert that the version guard rejects
\* is answered 200, writes nothing to the table of the rejected entity, and
\* its response body is the record (zone) the store holds for that identity.
C19_StaleUpsertEchoesStored ==
    /\ (last.op = "put" /\ last.status # 400 /\ ~last.applied) =>
          /\ last.status = 200
          /\ precords[U] = pre.precords
          /\ responseBody \in records[U]
    /\ (last.op = "zoneput" /\ last.status # 400 /\ ~last.zapplied) =>
          /\ last.status = 200
          /\ pzones[U] = pre.pzones
          /\ responseBody \in zones[U]

----------------------------------------------------------------------------
(* One node that takes mutations and answers queries *)

InitServe ==
    /\ records = [n \in Nodes |-> {}]
    /\ zones = [n \in Nodes |-> {}]
    /\ precords = [n \in Nodes |-> {}]
    /\ pzones = [n \in Nodes |-> {}]
    /\ cfg \in {[n \in Nodes |-> c] : c \in NodeCfgs(U, {})}
    /\ now = [n \in Nodes |-> 0]
    /\ inflight = {}
    /\ pre = [records |-> {}, zones |-> {}, precords |-> {}, pzones |-> {}]
    /\ last = NoLast
    /\ aux = NoResp

ServeQuery ==
    \E name \in {NameApp, ZoneCom, NameNet}, t \in {"A", "NS", "SOA", "ANY", "SRV"} :
        handleDNS(<<[Name |-> name, Qtype |-> t]>>)

NextServe ==
    \/ RecordPut(U)
    \/ RecordAdd(U)
    \/ RecordDelete(U)
    \/ ZonePut(U)
    \/ SyncExternal(U)
    \/ ServeQuery

SpecServe == InitServe /\ [][NextServe]_vars

\* C11: in every state reached through control-API and sync-ingest
\* mutations, a query of any type for a name that has no stored zone as a
\* suffix gets REFUSED with empty answer and authority sections.
C11_RefusedOutsideZones ==
    (/\ last.op = "query"
     /\ Len(aux.Question) = 1
     /\ bestZone(zones[U], aux.Question[1].Name) = {})
    => /\ aux.Rcode = "REFUSED"
       /\ aux.Answer = <<>>
       /\ aux.Ns = <<>>

----------------------------------------------------------------------------
(* One node behind its token middlewares *)

Envs ==
    {[NODE_ID |-> U, PEERS |-> {"n2"}, DEFAULT_NS |-> <<Raw(NS1.l)>>,
      DEFAULT_ZONE |-> EmptyName, API_TOKEN |-> a, SYNC_TOKEN |-> st] :
        a \in {"", "secret"}, st \in {"", "sync"}}

ApiHeaders ==
    {[NoHeaders EXCEPT !.Authorization = a] :
        a \in {"", "Bearer secret", "secret", "Bearer other"}}
    \cup {[NoHeaders EXCEPT !.XAPIToken = x] : x \in {"secret", "other"}}
    \cup {[NoHeaders EXCEPT !.Authorization = "Bearer other", !.XAPIToken = "secret"]}

SyncHeaders ==
    {[NoHeaders EXCEPT !.XSyncToken = x] : x \in {"", " ", "sync", "secret", "other"}}

InitAuth ==
    /\ records = [n \in Nodes |-> {}]
    /\ zones = [n \in Nodes |-> {}]
    /\ precords = [n \in Nodes |-> {}]
    /\ pzones = [n \in Nodes |-> {}]
    /\ cfg \in {[n \in Nodes |-> loadConfig(env)] : env \in Envs}
    /\ now = [n \in Nodes |-> 0]
    /\ inflight = {}
    /\ pre = [records |-> {}, zones |-> {}, precords |-> {}, pzones |-> {}]
    /\ last = NoLast
    /\ aux = [hdr |-> NoHeaders, sent |-> {}]

\* the request's headers and the events the request put in flight
Seen(hdr) == aux' = [hdr |-> hdr, sent |-> inflight' \ inflight]

AuthPut ==
    \E hdr \in ApiHeaders, t \in Later(U) :
        /\ apiAuthMiddleware(U, hdr, "put", handleRecordUpsert(U, NameApp, ClusterReq, t))
        /\ Seen(hdr)

AuthAdd ==
    \E hdr \in ApiHeaders, t \in Later(U) :
        /\ apiAuthMiddleware(U, hdr, "add", handleRecordAdd(U, NameApp, ClusterReq, t))
        /\ Seen(hdr)

AuthRemove ==
    \E hdr \in ApiHeaders, t \in Later(U) :
        /\ apiAuthMiddleware(U, hdr, "remove", handleRecordRemove(U, NameApp, ClusterReq, t))
        /\ Seen(hdr)

AuthDelete ==
    \E hdr \in ApiHeaders, t \in Later(U) :
        /\ apiAuthMiddleware(U, hdr, "delete", handleRecordDelete(U, NameApp, "", "absent", t))
        /\ Seen(hdr)

AuthZonePut ==
    \E hdr \in ApiHeaders, t \in Later(U) :
        /\ apiAuthMiddleware(U, hdr, "zoneput",
               handleZoneByName(U, ZoneCom, [NS |-> <<NS2>>, SOATTL |-> 0, Propagate |-> "absent"], t))
        /\ Seen(hdr)

AuthList ==
    \E hdr \in ApiHeaders :
        /\ apiAuthMiddleware(U, hdr, "list", handleList(U))
        /\ Seen(hdr)

AuthSync ==
    \E hdr \in SyncHeaders, ev \in ExtEvents, t \in Later(U) :
        /\ ev.Version = 1
        /\ syncAuthMiddleware(U, hdr, "sync", handleSyncEvent(U, ev, t))
        /\ UNCHANGED inflight
        /\ Seen(hdr)

NextAuth ==
    \/ AuthPut
    \/ AuthAdd
    \/ AuthRemove
    \/ AuthDelete
    \/ AuthZonePut
    \/ AuthList
    \/ AuthSync

SpecAuth == InitAuth /\ [][NextAuth]_vars

ApiOps == {"put", "add", "remove", "delete", "zoneput", "list"}
SyncOps == {"sync", "sync-set", "sync-add", "sync-remove", "sync-delete", "sync-zone",
            "sync-other"}

\* C13: with an API token configured, a request to a /v1 control endpoint is
\* admitted only if it carries the token as "Authorization: Bearer <token>"
\* or as "X-API-Token: <token>"; every other request gets 401 and changes
\* neither the store nor persistence and emits no replication event.
C13_ApiTokenRequired ==
    (last.op \in ApiOps /\ cfg[U].APIToken # "") =>
        /\ (last.status # 401) <=>
               \/ aux.hdr.Authorization = "Bearer " \o cfg[U].APIToken
               \/ aux.hdr.XAPIToken = cfg[U].APIToken
        /\ last.status = 401 => (Snapshot(U) = pre /\ aux.sent = {})

\* C14: with a sync token configured, POST /v1/sync/event applies an event
\* only if X-Sync-Token equals it and answers 401 without touching the store
\* when the header is missing or different; with no sync token configured
\* every event is accepted for ingest.
C14_SyncTokenRequired ==
    last.op \in SyncOps =>
        IF cfg[U].SyncToken # ""
        THEN /\ (last.status # 401) <=> (aux.hdr.XSyncToken = cfg[U].SyncToken)
             /\ last.status = 401 => Snapshot(U) = pre
        ELSE last.status # 401

C14_Witness ==
    /\ last.op = "sync"
    /\ last.status = 401
    /\ cfg[U].SyncToken = "sync"
    /\ aux.hdr.XSyncToken = "secret"
    /\ records[U] # {}

----------------------------------------------------------------------------
(* Replication between peers, one of which is down *)

MaxReplTime == 2

\* a configured peer address where nothing listens
DownPeer == "n3"

Flags == {"absent", "true", "false"}

ControlOps == {"put", "add", "remove", "delete", "zoneput"}

InitRepl ==
    /\ records = [n \in Nodes |-> {}]
    /\ zones = [n \in Nodes |-> {}]
    /\ precords = [n \in Nodes |-> {}]
    /\ pzones = [n \in Nodes |-> {}]
    /\ cfg \in {[n \in Nodes |->
                   [NoCfg EXCEPT !.NodeID = n,
                                 !.Peers = IF n = U THEN {"n2", DownPeer} ELSE {U},
                                 !.SyncToken = IF n = U THEN "" ELSE tok,
                                 !.DefaultNS = <<NS1>>]] : tok \in {"", "sync"}}
    /\ now = [n \in Nodes |-> 0]
    /\ inflight = {}
    /\ pre = [records |-> {}, zones |-> {}, precords |-> {}, pzones |-> {}]
    /\ last = NoLast
    /\ aux = [flag |-> "absent", sent |-> {}, budget |-> 0, posts |-> 0,
              acked |-> {}, tried |-> {}, twice |-> {}]

ReplLater ==
    LET latest == CHOOSE t \in {now[n] : n \in Nodes} : \A m \in Nodes : now[m] <= t
    IN {t \in {latest + 1} : t <= MaxReplTime}

\* no more POSTs than the mutations can have caused, and one more
MaxPosts == 3 * MaxReplTime + 1

\* bookkeeping of a control request: its flag, the events it put in flight,
\* the response the client got, and the POSTs it entitles the node to
Acked(n, flag) ==
    aux' = [aux EXCEPT !.flag = flag,
                       !.sent = inflight' \ inflight,
                       !.budget = @ + (IF last'.status = 200
                                       THEN Cardinality(cfg[n].Peers) ELSE 0),
                       !.acked = @ \cup {[node |-> n, at |-> now'[n],
                                          status |-> last'.status]}]

\* bookkeeping of one POST of the message m
Tried(m, outcome) ==
    aux' = [aux EXCEPT !.flag = "absent",
                       !.sent = inflight' \ inflight,
                       !.posts = @ + 1,
                       !.tried = @ \cup {[m |-> m, outcome |-> outcome]},
                       !.twice = @ \cup (IF \E x \in aux.tried : x.m = m THEN {m} ELSE {})]

ReplPut(n) ==
    \E flag \in Flags, t \in ReplLater :
        /\ handleRecordUpsert(n, NameApp, [ClusterReq EXCEPT !.Propagate = flag], t)
        /\ Acked(n, flag)
ReplAdd(n) ==
    \E flag \in Flags, t \in ReplLater :
        /\ handleRecordAdd(n, NameApp, [ClusterReq EXCEPT !.Propagate = flag], t)
        /\ Acked(n, flag)
ReplRemove(n) ==
    \E flag \in Flags, t \in ReplLater :
        /\ handleRecordRemove(n, NameApp, [ClusterReq EXCEPT !.Propagate = flag], t)
        /\ Acked(n, flag)
ReplDelete(n) ==
    \E flag \in Flags, t \in ReplLater :
        /\ handleRecordDelete(n, NameApp, "", flag, t)
        /\ Acked(n, flag)
ReplZonePut(n) ==
    \E flag \in Flags, t \in ReplLater :
        /\ handleZoneByName(n, ZoneCom, [NS |-> <<NS2>>, SOATTL |-> 0, Propagate |-> flag], t)
        /\ Acked(n, flag)

\* the POST reaches the peer, which answers it: 2xx or a rejection
PostAnswered ==
    \E m \in inflight, t \in ReplLater :
        LET hdr == [NoHeaders EXCEPT !.XSyncToken = cfg[m.ev.OriginNode].SyncToken]
        IN /\ m.to \in Nodes
           /\ aux.posts < MaxPosts
           /\ syncAuthMiddleware(m.to, hdr, "sync", handleSyncEvent(m.to, m.ev, t))
           /\ LET outcome == IF last'.status < 300 THEN "accepted" ELSE "rejected"
              IN /\ inflight' = postOnce(m, outcome)
                                  \cup (IF outcome = "accepted" THEN syncRelay(m.to, m.ev)
                                        ELSE {})
                 /\ Tried(m, outcome)

\* the POST fails in the client: the peer is unreachable or the 2 s run out
PostFailed ==
    \E m \in inflight :
        /\ aux.posts < MaxPosts
        /\ inflight' = postOnce(m, "failed")
        /\ last' = [NoLast EXCEPT !.op = "post", !.node = m.ev.OriginNode]
        /\ pre' = pre
        /\ UNCHANGED <<records, zones, precords, pzones, cfg, now>>
        /\ Tried(m, "failed")

NextRepl ==
    \/ ReplPut(U)
    \/ ReplAdd(U)
    \/ ReplRemove(U)
    \/ ReplDelete(U)
    \/ ReplZonePut(U)
    \/ PostAnswered
    \/ PostFailed

SpecRepl == InitRepl /\ [][NextRepl]_vars

\* C16: ingesting a sync event puts no event in flight; every event in
\* flight was emitted by a control-API mutation of its origin node and goes
\* to a peer of that node, and the POSTs made and pending never exceed the
\* peers of the nodes summed over their mutations.
C16_SyncIngestNeverRelays ==
    /\ last.op \in SyncOps => aux.sent = {}
    /\ \A m \in inflight :
          /\ m.to \in cfg[m.ev.OriginNode].Peers
          /\ [node |-> m.ev.OriginNode, at |-> m.ev.EventTime, status |-> 200] \in aux.acked
    /\ aux.posts + Cardinality(inflight) <= aux.budget

C16_Witness ==
    /\ last.op = "sync-set"
    /\ last.status = 200
    /\ last.node = "n2"
    /\ last.applied
    /\ cfg["n2"].Peers = {U}
    /\ aux.sent = {}
    /\ aux.posts >= 1

\* C17: a control-API mutation (record PUT, add, remove, DELETE, zone PUT)
\* whose propagate flag is false puts no event in flight; with the flag
\* absent or true it puts exactly one event in flight for each configured
\* peer, all carrying the same event of this node and this request.
C17_PropagateFlag ==
    (last.op \in ControlOps /\ last.status = 200) =>
        IF aux.flag = "false"
        THEN aux.sent = {}
        ELSE /\ \A p \in cfg[last.node].Peers : Cardinality({m \in aux.sent : m.to = p}) = 1
             /\ \A m \in aux.sent :
                   /\ m.to \in cfg[last.node].Peers
                   /\ m.ev.OriginNode = last.node
                   /\ m.ev.EventTime = now[last.node]
             /\ Cardinality({m.ev : m \in aux.sent}) = 1

C17_Witness ==
    /\ last.op = "delete"
    /\ last.status = 200
    /\ aux.flag = "false"
    /\ aux.sent = {}
    /\ Cardinality(cfg[last.node].Peers) = 2
    /\ Cardinality(inflight) = 2
    /\ \A m \in inflight : m.ev.Op = "zone"

\* C18: the response to a control-API mutation is given in the step that
\* queues its events, when none of them has been POSTed; whatever the
\* outcome of each POST (accepted, rejected, failed in the client) the
\* response given stays 200, and no (event, peer) pair is POSTed twice.
C18_ResponseBeforeReplication ==
    /\ aux.twice = {}
    /\ last.op \in ControlOps =>
          /\ last.status = 200
          /\ \A m \in aux.sent : ~\E x \in aux.tried : x.m = m
    /\ \A x \in aux.tried :
          /\ x.m \notin inflight
          /\ [node |-> x.m.ev.OriginNode, at |-> x.m.ev.EventTime, status |-> 200]
                 \in aux.acked
    /\ \A a \in aux.acked : a.status = 200

C18_Witness ==
    \E x, y \in aux.tried :
        /\ x.m.ev = y.m.ev
        /\ x.outcome = "rejected"
        /\ y.outcome = "failed"
        /\ y.m.to = DownPeer
        /\ [node |-> U, at |-> x.m.ev.EventTime, status |-> 200] \in aux.acked
        /\ inflight = {}

----------------------------------------------------------------------------
(* One node given record requests of every type *)

ReqTypes == {"", "a", "A", "AAAA", "TXT", "CNAME", "MX", "SRV"}

TypeReqs ==
    {[NoReq EXCEPT !.Type = ty, !.IP = ip, !.Text = tx, !.Target = tg] :
        ty \in ReqTypes, ip \in {"", "192.0.2.1"}, tx \in {"", "hello"},
        tg \in {EmptyName, Raw(Mail0.l)}}

TypeEvents ==
    {[NoEvent EXCEPT !.OriginNode = "ext", !.Op = op, !.HasRecord = TRUE,
                     !.Record = [NoRecord EXCEPT !.Name = Raw(NameApp.l), !.Type = req.Type,
                                                 !.IP = req.IP, !.Text = req.Text,
                                                 !.Target = req.Target]] :
        op \in {"set", "add", "remove"}, req \in TypeReqs}

InitTypes ==
    /\ records = [n \in Nodes |-> {}]
    /\ zones = [n \in Nodes |-> {}]
    /\ precords = [n \in Nodes |-> {}]
    /\ pzones = [n \in Nodes |-> {}]
    /\ cfg = [n \in Nodes |-> [NoCfg EXCEPT !.NodeID = n, !.DefaultNS = <<NS1>>]]
    /\ now = [n \in Nodes |-> 0]
    /\ inflight = {}
    /\ pre = [records |-> {}, zones |-> {}, precords |-> {}, pzones |-> {}]
    /\ last = NoLast
    /\ aux = [type |-> ""]

\* the "type" member of the request body
Typed(type) == aux' = [type |-> type]

TypePut ==
    \E req \in TypeReqs, t \in Later(U) :
        handleRecordUpsert(U, NameApp, req, t) /\ Typed(req.Type)
TypeAdd ==
    \E req \in TypeReqs, t \in Later(U) :
        handleRecordAdd(U, NameApp, req, t) /\ Typed(req.Type)
TypeRemove ==
    \E req \in TypeReqs, t \in Later(U) :
        handleRecordRemove(U, NameApp, req, t) /\ Typed(req.Type)
TypeSync ==
    \E ev \in TypeEvents, t \in Later(U) :
        handleSyncEvent(U, ev, t) /\ UNCHANGED inflight /\ Typed(ev.Record.Type)

NextTypes ==
    \/ TypePut
    \/ TypeAdd
    \/ TypeRemove
    \/ TypeSync

SpecTypes == InitTypes /\ [][NextTypes]_vars

\* C20: a record request (control-API PUT, add, remove; sync set, add,
\* remove) whose type is non-empty and, case and surrounding blanks aside,
\* none of A, AAAA, TXT, CNAME, MX is answered 400 and changes neither the
\* store nor persistence.
C20_UnknownTypeRejected ==
    (/\ last.op \in {"put", "add", "remove", "sync-set", "sync-add", "sync-remove"}
     /\ ToUpper(TrimSpace(aux.type)) \notin RecordTypes \cup {""})
    => /\ last.status = 400
       /\ Snapshot(U) = pre

----------------------------------------------------------------------------
(* A writer and a reader goroutine on one store, statement by statement *)

LockVersions == {1, MaxVersion}

LockRecords == {ARec(NameApp, ip, 30, v, "n1") : ip \in IPv4, v \in LockVersions}

WriterCalls ==
    {[op |-> op, rec |-> rec, type |-> "", version |-> rec.Version] :
        op \in {"set", "add", "remove"}, rec \in LockRecords}
    \cup {[op |-> "delete", rec |-> [NoRecord EXCEPT !.Name = NameApp], type |-> t,
           version |-> v] : t \in {"", "A"}, v \in LockVersions}

ReaderCalls ==
    {[op |-> "getRecords", name |-> NameApp, qtype |-> t] : t \in {"A", "ANY"}}
    \cup {[op |-> "hasName", name |-> NameApp, qtype |-> ""],
          [op |-> "listRecords", name |-> EmptyName, qtype |-> ""]}

NoCall == [op |-> "none", rec |-> NoRecord, type |-> "", version |-> 0]

InitLock ==
    /\ records = [n \in Nodes |-> {}]
    /\ zones = [n \in Nodes |-> {}]
    /\ precords = [n \in Nodes |-> {}]
    /\ pzones = [n \in Nodes |-> {}]
    /\ cfg = [n \in Nodes |-> [NoCfg EXCEPT !.NodeID = n]]
    /\ now = [n \in Nodes |-> 0]
    /\ inflight = {}
    /\ pre = [records |-> {}, zones |-> {}, precords |-> {}, pzones |-> {}]
    /\ last = NoLast
    /\ aux = [mu |-> [w |-> FALSE, r |-> 0],
              wpc |-> "idle", call |-> NoCall, todo |-> {}, ret |-> FALSE,
              start |-> {}, stable |-> {},
              rpc |-> "idle", rcall |-> [op |-> "none", name |-> EmptyName, qtype |-> ""],
              out |-> <<>>, found |-> FALSE, seen |-> {}]

LockFrame == UNCHANGED <<zones, precords, pzones, cfg, now, inflight>>

\* a mutation is called: the arguments are normalized before the lock
WriterCall ==
    \E c \in WriterCalls :
        /\ aux.wpc = "idle"
        /\ aux' = [aux EXCEPT !.wpc = "lock", !.call = [c EXCEPT !.rec = StoreNorm(c.rec)]]
        /\ UNCHANGED <<records, pre, last>>
        /\ LockFrame

WriterLock ==
    /\ aux.wpc = "lock"
    /\ LockFree(aux.mu)
    /\ aux' = [aux EXCEPT !.mu.w = TRUE, !.wpc = "body", !.todo = records[U],
                          !.ret = FALSE, !.start = records[U]]
    /\ UNCHANGED <<records, pre, last>>
    /\ LockFrame

\* one iteration of the range loop of setRecord, or the statements after it
WriterSet ==
    /\ aux.wpc = "body"
    /\ aux.call.op = "set"
    /\ LET rec == aux.call.rec
       IN IF aux.todo \cap records[U] # {}
          THEN \E prev \in aux.todo \cap records[U] :
                  IF prev.Name # rec.Name \/ prev.Type # rec.Type
                  THEN /\ aux' = [aux EXCEPT !.todo = @ \ {prev}]
                       /\ UNCHANGED records
                  ELSE IF prev.Version > rec.Version
                       THEN /\ aux' = [aux EXCEPT !.wpc = "unlock", !.ret = FALSE]
                            /\ UNCHANGED records
                       ELSE /\ records' = [records EXCEPT ![U] = @ \ {prev}]
                            /\ aux' = [aux EXCEPT !.todo = @ \ {prev}]
          ELSE IF \E p \in Lookup(records[U], recordKey(rec)) : p.Version > rec.Version
               THEN /\ aux' = [aux EXCEPT !.wpc = "unlock", !.ret = FALSE]
                    /\ UNCHANGED records
               ELSE /\ records' = [records EXCEPT ![U] = PutRecord(@, rec)]
                    /\ aux' = [aux EXCEPT !.wpc = "unlock", !.ret = TRUE]
    /\ UNCHANGED <<pre, last>>
    /\ LockFrame

WriterAdd ==
    /\ aux.wpc = "body"
    /\ aux.call.op = "add"
    /\ LET rec == aux.call.rec
       IN IF \E p \in Lookup(records[U], recordKey(rec)) : p.Version > rec.Version
          THEN /\ aux' = [aux EXCEPT !.wpc = "unlock", !.ret = FALSE]
               /\ UNCHANGED records
          ELSE /\ records' = [records EXCEPT ![U] = PutRecord(@, rec)]
               /\ aux' = [aux EXCEPT !.wpc = "unlock", !.ret = TRUE]
    /\ UNCHANGED <<pre, last>>
    /\ LockFrame

WriterRemove ==
    /\ aux.wpc = "body"
    /\ aux.call.op = "remove"
    /\ LET hit == Lookup(records[U], recordKey(aux.call.rec))
       IN IF hit = {} \/ \E p \in hit : p.Version > aux.call.version
          THEN /\ aux' = [aux EXCEPT !.wpc = "unlock", !.ret = FALSE]
               /\ UNCHANGED records
          ELSE /\ records' = [records EXCEPT ![U] = @ \ hit]
               /\ aux' = [aux EXCEPT !.wpc = "unlock", !.ret = TRUE]
    /\ UNCHANGED <<pre, last>>
    /\ LockFrame

\* one iteration of the range loop of deleteRecordByType, or its return
WriterDelete ==
    /\ aux.wpc = "body"
    /\ aux.call.op = "delete"
    /\ LET name == normalizeName(aux.call.rec.Name)
           recordType == ToUpper(TrimSpace(aux.call.type))
       IN IF aux.todo \cap records[U] # {}
          THEN \E prev \in aux.todo \cap records[U] :
                  IF \/ prev.Name # name
                     \/ (recordType # "" /\ prev.Type # recordType)
                     \/ prev.Version > aux.call.version
                  THEN /\ aux' = [aux EXCEPT !.todo = @ \ {prev}]
                       /\ UNCHANGED records
                  ELSE /\ records' = [records EXCEPT ![U] = @ \ {prev}]
                       /\ aux' = [aux EXCEPT !.todo = @ \ {prev}, !.ret = TRUE]
          ELSE /\ aux' = [aux EXCEPT !.wpc = "unlock"]
               /\ UNCHANGED records
    /\ UNCHANGED <<pre, last>>
    /\ LockFrame

\* defer s.mu.Unlock(): the call returns
WriterUnlock ==
    /\ aux.wpc = "unlock"
    /\ aux' = [aux EXCEPT !.mu.w = FALSE, !.wpc = "idle", !.stable = records[U]]
    /\ pre' = [Snapshot(U) EXCEPT !.records = aux.start]
    /\ last' = [NoLast EXCEPT !.op = aux.call.op, !.rec = aux.call.rec,
                              !.name = aux.call.rec.Name, !.type = aux.call.type,
                              !.version = aux.call.version, !.applied = aux.ret]
    /\ UNCHANGED records
    /\ LockFrame

ReaderCall ==
    \E c \in ReaderCalls :
        /\ aux.rpc = "idle"
        /\ aux' = [aux EXCEPT !.rpc = "rlock", !.rcall = c]
        /\ UNCHANGED <<records, pre, last>>
        /\ LockFrame

ReaderRLock ==
    /\ aux.rpc = "rlock"
    /\ RLockFree(aux.mu)
    /\ aux' = [aux EXCEPT !.mu.r = 1, !.rpc = "read"]
    /\ UNCHANGED <<records, pre, last>>
    /\ LockFrame

\* the body of getRecords, hasName or listRecords under the read lock
ReaderRead ==
    /\ aux.rpc = "read"
    /\ \E ord \in (CASE aux.rcall.op = "getRecords" ->
                          getRecords(records[U], aux.rcall.name, aux.rcall.qtype)
                     [] aux.rcall.op = "listRecords" -> listRecords(records[U])
                     [] OTHER -> {<<>>}) :
          aux' = [aux EXCEPT !.rpc = "runlock", !.out = ord,
                             !.found = hasName(records[U], aux.rcall.name),
                             !.seen = aux.stable]
    /\ UNCHANGED <<records, pre, last>>
    /\ LockFrame

ReaderRUnlock ==
    /\ aux.rpc = "runlock"
    /\ aux' = [aux EXCEPT !.mu.r = 0, !.rpc = "idle", !.out = <<>>, !.found = FALSE,
                          !.seen = {},
                          !.rcall = [op |-> "none", name |-> EmptyName, qtype |-> ""]]
    /\ UNCHANGED <<records, pre, last>>
    /\ LockFrame

NextLock ==
    \/ WriterCall
    \/ WriterLock
    \/ WriterSet
    \/ WriterAdd
    \/ WriterRemove
    \/ WriterDelete
    \/ WriterUnlock
    \/ ReaderCall
    \/ ReaderRLock
    \/ ReaderRead
    \/ ReaderRUnlock

SpecLock == InitLock /\ [][NextLock]_vars

\* the result of the reader's call on the store contents recs
ReadOf(recs) ==
    CASE aux.rcall.op = "getRecords" ->
             aux.out \in getRecords(recs, aux.rcall.name, aux.rcall.qtype)
      [] aux.rcall.op = "listRecords" -> aux.out \in listRecords(recs)
      [] aux.rcall.op = "hasName" -> aux.found = hasName(recs, aux.rcall.name)
      [] OTHER -> TRUE

\* C21: what getRecords, hasName or listRecords returns while setRecord,
\* addRecord, removeRecord or deleteRecordByType runs is the result on the
\* store as the last completed operation left it, which is the complete
\* pre-state of the operation in progress, never a state between two of its
\* statements; and a completed operation leaves the store as the operation
\* as a whole defines.
C21_ReadersSeeWholeOperations ==
    /\ aux.rpc = "runlock" => ReadOf(aux.seen)
    /\ (aux.wpc = "idle" /\ last.op # "none") =>
          /\ aux.stable = records[U]
          /\ [recs |-> records[U], applied |-> last.applied] \in
                (CASE last.op = "set" -> setRecord(pre.records, last.rec)
                   [] last.op = "add" -> {addRecord(pre.records, last.rec)}
                   [] last.op = "remove" -> {removeRecord(pre.records, last.rec, last.version)}
                   [] OTHER -> {deleteRecordByType(pre.records, last.name, last.type,
                                                   last.version)})

C21_Witness ==
    /\ aux.rpc = "runlock"
    /\ aux.rcall.op = "getRecords"
    /\ aux.wpc = "lock"
    /\ aux.call.op = "set"
    /\ Len(aux.out) = 2
    /\ aux.call.rec.Version = MaxVersion

----------------------------------------------------------------------------
(* DNS over HTTPS *)

\* msg.Pack(): the header with the section counts, then the sections
Pack(m) ==
    <<m.Id, m.Rcode, m.Authoritative, Len(m.Question), Len(m.Answer), Len(m.Ns)>>
        \o m.Question \o m.Answer \o m.Ns

\* req.Unpack(payload); result: [err, msg]
Unpack(b) ==
    LET none == [Id |-> 0, Rcode |-> "", Authoritative |-> FALSE, Question |-> <<>>,
                 Answer |-> <<>>, Ns |-> <<>>]
    IN IF Len(b) < 6 THEN [err |-> TRUE, msg |-> none]
       ELSE IF Len(b) # 6 + b[4] + b[5] + b[6] THEN [err |-> TRUE, msg |-> none]
            ELSE [err |-> FALSE,
                  msg |-> [Id |-> b[1], Rcode |-> b[2], Authoritative |-> b[3],
                           Question |-> SubSeq(b, 7, 6 + b[4]),
                           Answer |-> SubSeq(b, 7 + b[4], 6 + b[4] + b[5]),
                           Ns |-> SubSeq(b, 7 + b[4] + b[5], Len(b))]]

\* a text of the base64url alphabet that stands for the bytes b, with or
\* without the padding of the standard encoding
EncodeToString(b, pad) == [bytes |-> b, pad |-> pad]

NoParam == [bytes |-> <<>>, pad |-> FALSE]

\* base64.StdEncoding in place of RawURLEncoding: the padding is required
DecodeString_Std(q) ==
    IF q.pad THEN [err |-> FALSE, bytes |-> q.bytes] ELSE [err |-> TRUE, bytes |-> <<>>]

\* base64.RawURLEncoding.DecodeString: strict, padding is an error
DecodeString(q) ==
    IF q.pad THEN [err |-> TRUE, bytes |-> <<>>] ELSE [err |-> FALSE, bytes |-> q.bytes]

\* the HTTP responses handleDoH can give: [status, body]
handleDoH(method, q, body) ==
    LET fail(code) == {[status |-> code, body |-> <<>>]}
        decoded == DecodeString(q)
        early == CASE method = "GET" /\ q = NoParam -> 400
                   [] method = "GET" /\ decoded.err -> 400
                   [] method = "POST" /\ Len(body) = 0 -> 400
                   [] method \notin {"GET", "POST"} -> 405
                   [] OTHER -> 0
        payload == IF method = "GET" THEN decoded.bytes ELSE body
        req == Unpack(payload)
    IN IF early # 0 THEN fail(early)
       ELSE IF Len(payload) > 65535 THEN fail(413)
       ELSE IF req.err THEN fail(400)
       ELSE {[status |-> 200,
              body |-> Pack([Id |-> req.msg.Id, Rcode |-> resp.Rcode,
                             Authoritative |-> resp.Authoritative,
                             Question |-> resp.Question, Answer |-> resp.Answer,
                             Ns |-> resp.Ns])] :
                resp \in resolveDNS(records[U], zones[U], req.msg.Question)}

DoHQuestions ==
    {<<[Name |-> name, Qtype |-> t]>> : name \in {NameApp, NameNet}, t \in {"A", "AAAA", "SOA"}}

\* wire queries, and one cut short
DoHWires ==
    {Pack([Id |-> 7, Rcode |-> "NOERROR", Authoritative |-> FALSE, Question |-> qs,
           Answer |-> <<>>, Ns |-> <<>>]) : qs \in DoHQuestions}
    \cup {<<7, "NOERROR", FALSE, 1, 0, 0>>}

NoHTTP == [status |-> 0, body |-> <<>>]

InitDoH ==
    /\ \E recs \in SUBSET DNSRecords, zs \in SUBSET DNSZones :
          /\ Cardinality(recs) <= MaxStored
          /\ records = [n \in Nodes |-> recs]
          /\ zones = [n \in Nodes |-> zs]
    /\ precords = [n \in Nodes |-> {}]
    /\ pzones = [n \in Nodes |-> {}]
    /\ cfg = [n \in Nodes |-> [NoCfg EXCEPT !.NodeID = n]]
    /\ now = [n \in Nodes |-> 0]
    /\ inflight = {}
    /\ pre = [records |-> {}, zones |-> {}, precords |-> {}, pzones |-> {}]
    /\ last = NoLast
    /\ \E w \in DoHWires : aux = [wire |-> w, get |-> NoHTTP, post |-> NoHTTP, bad |-> NoHTTP]

DoHFrame(op) ==
    /\ last' = [NoLast EXCEPT !.op = op]
    /\ pre' = Snapshot(U)
    /\ UNCHANGED <<records, zones, precords, pzones, cfg, now, inflight>>

\* GET /dns-query?dns=<base64url of the wire query>
DoHGet ==
    /\ \E r \in handleDoH("GET", EncodeToString(aux.wire, FALSE), <<>>) :
          aux' = [aux EXCEPT !.get = r]
    /\ DoHFrame("doh-get")

\* POST /dns-query with the wire query as the body
DoHPost ==
    /\ \E r \in handleDoH("POST", NoParam, aux.wire) : aux' = [aux EXCEPT !.post = r]
    /\ DoHFrame("doh-post")

\* requests the handler refuses: no parameter, padded base64, empty body,
\* another method
DoHBad ==
    /\ \E req \in {[method |-> "GET", q |-> NoParam, body |-> <<>>],
                   [method |-> "GET", q |-> EncodeToString(aux.wire, TRUE), body |-> <<>>],
                   [method |-> "POST", q |-> NoParam, body |-> <<>>],
                   [method |-> "PUT", q |-> NoParam, body |-> aux.wire]} :
          \E r \in handleDoH(req.method, req.q, req.body) : aux' = [aux EXCEPT !.bad = r]
    /\ DoHFrame("doh-bad")

NextDoH ==
    \/ DoHGet
    \/ DoHPost
    \/ DoHBad

SpecDoH == InitDoH /\ [][NextDoH]_vars

\* the answer section as a bag
AnswerBag(b) ==
    LET an == Unpack(b).msg.Answer
    IN [rr \in {an[i] : i \in 1..Len(an)} |-> Cardinality({i \in 1..Len(an) : an[i] = rr})]

\* C24 as stated: for one stored state and one wire query, the DoH GET and
\* the DoH POST return identical response bytes.
C24_DoHGetEqualsPost ==
    (aux.get # NoHTTP /\ aux.post # NoHTTP) => aux.get = aux.post

\* C24 as amended: for one stored state and one wire query, the DoH GET and
\* the DoH POST return the same status and the same DNS response up to the
\* order of the answer records.
C24_DoHGetMatchesPost ==
    (aux.get # NoHTTP /\ aux.post # NoHTTP) =>
        /\ aux.get.status = aux.post.status
        /\ Len(aux.get.body) = Len(aux.post.body)
        /\ aux.get.status = 200 =>
              LET g == Unpack(aux.get.body).msg
                  p == Unpack(aux.post.body).msg
              IN /\ [g EXCEPT !.Answer = <<>>] = [p EXCEPT !.Answer = <<>>]
                 /\ AnswerBag(aux.get.body) = AnswerBag(aux.post.body)

C24_Witness ==
    /\ aux.get.status = 200
    /\ aux.post.status = 200
    /\ aux.get.body # aux.post.body
    /\ Len(Unpack(aux.get.body).msg.Answer) = 2
    /\ aux.bad.status = 400

----------------------------------------------------------------------------
(* One upsert on a store of two names and two types *)

FrameVersions == {1, MaxVersion}

FrameRecords ==
    {ARec(name, ip, 30, v, "n1") : name \in {NameApp, NameNet}, ip \in IPv4, v \in FrameVersions}
    \cup {TXTRec(name, "hello", 30, v, "n1") : name \in {NameApp, NameNet}, v \in FrameVersions}

MaxHeld == 4

InitFrame ==
    /\ \E recs \in SUBSET FrameRecords :
          /\ KeyUnique(recs)
          /\ Cardinality(recs) <= MaxHeld
          /\ records = [n \in Nodes |-> recs]
    /\ zones = [n \in Nodes |-> {}]
    /\ precords = [n \in Nodes |-> {}]
    /\ pzones = [n \in Nodes |-> {}]
    /\ cfg = [n \in Nodes |-> [NoCfg EXCEPT !.NodeID = n, !.DefaultNS = <<NS1>>]]
    /\ now = [n \in Nodes |-> 0]
    /\ inflight = {}
    /\ pre = [records |-> {}, zones |-> {}, precords |-> {}, pzones |-> {}]
    /\ last = NoLast
    /\ aux = <<>>

\* s.data.setRecord(rec), once
FrameSet ==
    /\ last.op = "none"
    /\ \E rec \in FrameRecords : StoreSet(U, rec)
    /\ UNCHANGED aux

\* PUT /v1/records/{name}, once
FramePut ==
    /\ last.op = "none"
    /\ \E name \in {NameApp, NameNet}, req \in RecordReqs, t \in Later(U) :
          handleRecordUpsert(U, name, req, t)
    /\ UNCHANGED aux

NextFrame ==
    \/ FrameSet
    \/ FramePut

SpecFrame == InitFrame /\ [][NextFrame]_vars

\* C26: after a PUT /v1/records/{name} (setRecord) that the store accepted,
\* the RRset at the record's name and type holds exactly the one provided
\* member, whatever it held before, and the records of every other name and
\* of every other type at the name are as they were.
C26_UpsertReplacesRRset ==
    (last.op \in {"set", "put"} /\ last.applied) =>
        LET rec == StoreNorm(last.rec)
            other(recs) == {p \in recs : p.Name # rec.Name \/ p.Type # rec.Type}
        IN /\ RRset(records[U], rec.Name, rec.Type) = {rec}
           /\ other(records[U]) = other(pre.records)

C26_Witness ==
    /\ last.op = "put"
    /\ last.applied
    /\ last.status = 200
    /\ Cardinality(RRset(pre.records, NameApp, "A")) = 2
    /\ RRset(records[U], NameApp, "A") = {last.rec}
    /\ RRset(records[U], NameApp, "TXT") # {}
    /\ RRset(records[U], NameNet, "A") # {}

----------------------------------------------------------------------------
(* The resolver and a store writer as two goroutines: every store method is
   one step (it runs under the store's lock), resolveDNS is the sequence of
   the store methods it calls *)

RaceRecords ==
    {ARec(NameApp, "192.0.2.1", 30, 1, "n1"),
     [NoRecord EXCEPT !.Name = NameApp, !.Type = "CNAME", !.Target = NameNet, !.TTL = 30,
                      !.Zone = ZoneCom, !.UpdatedAt = 1, !.Version = 1, !.Source = "n1"]}

RaceQuestions ==
    {<<[Name |-> NameApp, Qtype |-> t]>> : t \in {"A", "TXT", "SOA"}}

InitRace ==
    /\ \E recs \in SUBSET RaceRecords : records = [n \in Nodes |-> recs]
    /\ zones = [n \in Nodes |->
                  {[Zone |-> ZoneCom, NS |-> <<NS1>>, SOATTL |-> 60, Serial |-> 1,
                    UpdatedAt |-> 1]}]
    /\ precords = [n \in Nodes |-> {}]
    /\ pzones = [n \in Nodes |-> {}]
    /\ cfg = [n \in Nodes |-> [NoCfg EXCEPT !.NodeID = n]]
    /\ now = [n \in Nodes |-> 0]
    /\ inflight = {}
    /\ pre = [records |-> {}, zones |-> {}, precords |-> {}, pzones |-> {}]
    /\ last = NoLast
    /\ aux = [pc |-> "idle", question |-> <<>>, answer |-> <<>>, zone |-> {},
              seen |-> {}, resp |-> NoResp]

\* the stores that existed since the query in progress started
RaceSeen(recs) ==
    IF aux.pc \in {"idle", "done"} THEN aux.seen ELSE aux.seen \cup {recs}

\* a writer goroutine completes one store operation
RaceAdd ==
    \E rec \in RaceRecords :
        /\ StoreAdd(U, rec)
        /\ aux' = [aux EXCEPT !.seen = RaceSeen(addRecord(records[U], rec).recs)]

RaceDelete ==
    \E t \in {"", "A"} :
        /\ StoreDelete(U, NameApp, t, MaxVersion)
        /\ aux' = [aux EXCEPT !.seen =
                      RaceSeen(deleteRecordByType(records[U], NameApp, t, MaxVersion).recs)]

RaceFrame == UNCHANGED <<records, zones, precords, pzones, cfg, now, inflight, pre, last>>

\* handleDNS calls resolveDNS(req)
RaceQuery ==
    \E question \in RaceQuestions :
        /\ aux.pc \in {"idle", "done"}
        /\ aux' = [pc |-> "direct", question |-> question, answer |-> <<>>, zone |-> {},
                   seen |-> {records[U]}, resp |-> NoResp]
        /\ RaceFrame

\* the answer written once no store call is left to make
RaceReply(answer) ==
    [Rcode |-> "NOERROR", Authoritative |-> TRUE, Question |-> aux.question,
     Answer |-> answer, Ns |-> <<>>]

\* the switch on q.Qtype: the first getRecords (getZone, bestZone) call
RaceDirect ==
    /\ aux.pc = "direct"
    /\ LET q == aux.question[1]
           direct == answersFor({r \in records[U] : r.Type # "CNAME" \/ q.Qtype = "CNAME"},
                                zones[U], q)
       IN \E answer \in direct :
            aux' = IF answer = <<>> /\ q.Qtype \in {"A", "AAAA", "TXT"}
                   THEN [aux EXCEPT !.pc = "fallback"]
                   ELSE IF answer = <<>>
                        THEN [aux EXCEPT !.pc = "zone"]
                        ELSE [aux EXCEPT !.pc = "done", !.answer = answer,
                                         !.resp = RaceReply(answer)]
    /\ RaceFrame

\* if !hasDirectAnswer: getRecords(name, dns.TypeCNAME)
RaceFallback ==
    /\ aux.pc = "fallback"
    /\ \E answer \in cnameFallback(records[U], normalizeName(aux.question[1].Name)) :
          aux' = IF answer = <<>>
                 THEN [aux EXCEPT !.pc = "zone"]
                 ELSE [aux EXCEPT !.pc = "done", !.answer = answer,
                                  !.resp = RaceReply(answer)]
    /\ RaceFrame

\* len(resp.Answer) == 0: bestZone(firstQ)
RaceZone ==
    /\ aux.pc = "zone"
    /\ LET zone == bestZone(zones[U], normalizeName(aux.question[1].Name))
       IN aux' = IF zone = {}
                 THEN [aux EXCEPT !.pc = "done",
                                  !.resp = [RaceReply(<<>>) EXCEPT !.Rcode = "REFUSED"]]
                 ELSE [aux EXCEPT !.pc = "name", !.zone = zone]
    /\ RaceFrame

\* hasName(firstQ) and the rcode of the empty answer
RaceName ==
    /\ aux.pc = "name"
    /\ LET firstQ == normalizeName(aux.question[1].Name)
           firstType == aux.question[1].Qtype
           ok == /\ hasName(records[U], firstQ)
                 /\ firstType \in {"A", "AAAA", "TXT", "CNAME", "MX", "ANY"}
       IN aux' = [aux EXCEPT !.pc = "done",
                             !.resp = [RaceReply(<<>>) EXCEPT
                                          !.Rcode = IF ok THEN "NOERROR" ELSE "NXDOMAIN",
                                          !.Ns = <<soaForZone(CHOOSE z \in aux.zone : TRUE)>>]]
    /\ RaceFrame

NextRace ==
    \/ RaceAdd
    \/ RaceDelete
    \/ RaceQuery
    \/ RaceDirect
    \/ RaceFallback
    \/ RaceZone
    \/ RaceName

SpecRace == InitRace /\ [][NextRace]_vars

\* C31: with writers running concurrently with the resolver, the response
\* of every query (rcode, answer, authority) is the resolver's result on one
\* single store state that existed between the start and the end of the
\* query.
C31_ResponseFromOneSnapshot ==
    aux.pc = "done" =>
        \E recs \in aux.seen : aux.resp \in resolveDNS(recs, zones[U], aux.question)

\* without a writer in between, the steps of the resolver give resolveDNS
C31_SequentialAgrees ==
    (aux.pc = "done" /\ Cardinality(aux.seen) = 1) =>
        \A recs \in aux.seen : aux.resp \in resolveDNS(recs, zones[U], aux.question)

----------------------------------------------------------------------------
(* Sync ingest of events the node has already applied *)

\* the event of the last request carries a record (zone) that the store
\* already held, field for field, with the event's version
Replayed ==
    /\ last.status = 200
    /\ \/ last.op \in {"sync-set", "sync-add"} /\ last.rec \in pre.records
       \/ last.op = "sync-zone" /\ \E z \in pre.zones :
                                      /\ z.Zone = normalizeName(last.zone.Zone)
                                      /\ z.Serial = last.version
                                      /\ z.NS = normalizeNames(last.zone.NS)
                                      /\ z.SOATTL = last.zone.SOATTL

\* C32: ingesting a sync event whose version equals the version already
\* stored (an event of the node's own, or one it ingests a second time)
\* leaves the store and persistence unchanged: the same records and the same
\* zones, serial and name-server list included.
C32_ReplayedEventNoOp ==
    (last.op \in {"sync-set", "sync-add", "sync-zone"} /\ Replayed) => Snapshot(last.node) = pre

----------------------------------------------------------------------------
(* Sync ingest of every event the endpoint accepts *)

\* zone events whose version and zone_config.serial differ: the endpoint
\* decodes both fields and compares neither with the other
SkewedEvents ==
    {[NoEvent EXCEPT !.OriginNode = "ext", !.Op = "zone", !.Zone = z.Zone,
                     !.Version = v, !.HasZoneConfig = TRUE, !.ZoneConfig = z] :
        z \in ExtZones, v \in ExtVersions} \ ExtEvents

SyncSkewed(n) ==
    \E ev \in SkewedEvents, t \in Later(n) :
        handleSyncEvent(n, ev, t) /\ UNCHANGED <<inflight, aux>>

NextIngest ==
    \/ SyncExternal(U)
    \/ SyncSkewed(U)
    \/ ZonePut(U)

SpecIngest == InitNode /\ [][NextIngest]_vars

\* C33: after a sync event is ingested and applied, the version stored for
\* its record (ops set, add) or the serial stored for its zone (op zone) is
\* the version field of the event, for every event the endpoint accepts.
C33_EventVersionStored ==
    /\ (last.op \in {"sync-set", "sync-add"} /\ last.status = 200 /\ last.applied) =>
          \E r \in Lookup(records[last.node], recordKey(StoreNorm(last.rec))) :
              r.Version = last.version
    /\ (last.op = "sync-zone" /\ last.status = 200 /\ last.zapplied) =>
          \E z \in zones[last.node] :
              z.Zone = normalizeName(last.zone.Zone) /\ z.Serial = last.version

\* the record half of the statement, which the code keeps
C33_RecordVersionStored ==
    (last.op \in {"sync-set", "sync-add"} /\ last.status = 200 /\ last.applied) =>
        \E r \in Lookup(records[last.node], recordKey(StoreNorm(last.rec))) :
            r.Version = last.version

----------------------------------------------------------------------------
(* The versions one record identity is stored with, over time *)

InitMono ==
    /\ records = [n \in Nodes |-> {}]
    /\ zones = [n \in Nodes |-> {}]
    /\ precords = [n \in Nodes |-> {}]
    /\ pzones = [n \in Nodes |-> {}]
    /\ cfg \in {[n \in Nodes |-> c] : c \in NodeCfgs(U, {})}
    /\ now = [n \in Nodes |-> 0]
    /\ inflight = {}
    /\ pre = [records |-> {}, zones |-> {}, precords |-> {}, pzones |-> {}]
    /\ last = NoLast
    /\ aux = {}

\* every <<identity, version>> the store has held so far
Stored(recs) == {<<recordKey(r), r.Version>> : r \in recs}

MonoSync(n) ==
    \E ev \in ExtEvents, t \in Later(n) :
        /\ handleSyncEvent(n, ev, t)
        /\ aux' = aux \cup Stored(records'[n])
        /\ UNCHANGED inflight

MonoAdd(n) ==
    \E req \in RecordReqs, t \in Later(n) :
        /\ handleRecordAdd(n, NameApp, req, t)
        /\ aux' = aux \cup Stored(records'[n])

MonoRemove(n) ==
    \E req \in RecordReqs, t \in Later(n) :
        /\ handleRecordRemove(n, NameApp, req, t)
        /\ aux' = aux \cup Stored(records'[n])

NextMono ==
    \/ MonoSync(U)
    \/ MonoAdd(U)
    \/ MonoRemove(U)

SpecMono == InitMono /\ [][NextMono]_vars

\* C34: the versions successively stored for one record identity (name,
\* type, value) never decrease, over any sequence of set, add, remove and
\* delete operations of the control API and of sync ingest, a removal
\* followed by a re-creation included.
C34_VersionsNeverDecrease ==
    \A r \in records[U], p \in aux : p[1] = recordKey(r) => p[2] <= r.Version

\* while an identity stays in the store its version does not decrease
C34_NoDecreaseWhileStored ==
    \A r \in records[U], q \in pre.records :
        (last.node = U /\ last.op # "none" /\ recordKey(q) = recordKey(r)) =>
            q.Version <= r.Version

----------------------------------------------------------------------------
(* Records and the zones that own them *)

\* C35: after any sequence of control-API and sync-ingest mutations, every
\* record of the store has a zone entity in the store whose name is the
\* record's zone.
C35_RecordHasZone ==
    \A r \in records[U] : \E z \in zones[U] : z.Zone = r.Zone

\* the control API alone keeps every stored record inside a stored zone
C35_ControlAPIKeepsZone ==
    (last.op \in {"put", "add"} /\ last.status = 200 /\ last.applied) =>
        \E z \in zones[U] : z.Zone = StoreNorm(last.rec).Zone

----------------------------------------------------------------------------
(* The zone a record is stored under: named by the request, or inferred *)

OwnerReqs ==
    {[NoReq EXCEPT !.Type = "A", !.IP = "192.0.2.1", !.Zone = z] :
        z \in {EmptyName, ZoneCom, Raw(ZoneCom.l)}}

OwnerEvents ==
    {[NoEvent EXCEPT !.OriginNode = "ext", !.Op = op, !.HasRecord = TRUE,
                     !.Record = [NoRecord EXCEPT !.Name = Raw(name.l), !.Type = "A",
                                                 !.IP = "192.0.2.1", !.Zone = z],
                     !.Version = MaxVersion] :
        op \in {"set", "add"}, name \in {NameApp, NameNet}, z \in {EmptyName, ZoneCom}}

InitOwner ==
    /\ records = [n \in Nodes |-> {}]
    /\ zones = [n \in Nodes |-> {}]
    /\ precords = [n \in Nodes |-> {}]
    /\ pzones = [n \in Nodes |-> {}]
    /\ cfg \in {[n \in Nodes |-> [NoCfg EXCEPT !.NodeID = n, !.DefaultNS = <<NS1>>,
                                              !.DefaultZone = dz]] :
                   dz \in {EmptyName, ZoneCom}}
    /\ now = [n \in Nodes |-> 0]
    /\ inflight = {}
    /\ pre = [records |-> {}, zones |-> {}, precords |-> {}, pzones |-> {}]
    /\ last = NoLast
    /\ aux = <<>>

OwnerPut(n) ==
    \E name \in {NameApp, Raw(NameApp.l), NameNet}, req \in OwnerReqs, t \in Later(n) :
        handleRecordUpsert(n, name, req, t) /\ UNCHANGED aux

OwnerAdd(n) ==
    \E name \in {NameApp, NameNet}, req \in OwnerReqs, t \in Later(n) :
        handleRecordAdd(n, name, req, t) /\ UNCHANGED aux

OwnerSync(n) ==
    \E ev \in OwnerEvents, t \in Later(n) :
        handleSyncEvent(n, ev, t) /\ UNCHANGED <<inflight, aux>>

NextOwner ==
    \/ OwnerPut(U)
    \/ OwnerAdd(U)
    \/ OwnerSync(U)

SpecOwner == InitOwner /\ [][NextOwner]_vars

\* C36: after any sequence of control-API and sync-ingest mutations, with
\* or without a zone in the request and with or without a configured default
\* zone, every record of the store has a normalized FQDN name and a
\* normalized FQDN zone that is a label-wise suffix of (or equal to) the name.
C36_ZoneIsSuffixOfName ==
    \A r \in records[U] :
        /\ r.Name = normalizeName(r.Name)
        /\ r.Zone = normalizeName(r.Zone)
        /\ IsSubDomain(r.Zone, r.Name)

\* the names and zones are stored in normalized form
C36_NamesNormalized ==
    \A r \in records[U] : r.Name = normalizeName(r.Name) /\ r.Zone = normalizeName(r.Zone)

----------------------------------------------------------------------------
(* One record PUT and one zone PUT as two goroutines of a node, statement by
   statement: each store and persistence call is one step *)

StepReq == [NoReq EXCEPT !.Type = "A", !.IP = "192.0.2.1", !.Propagate = "true"]

StepZoneReq == [NS |-> <<NS2>>, SOATTL |-> 0, Propagate |-> "false"]

\* time.Now() of a goroutine: the clock may not have advanced since the
\* other goroutine read it
StepTimes == {t \in {now[U], now[U] + 1} : 1 <= t /\ t <= MaxTime}

InitSteps ==
    /\ records = [n \in Nodes |-> {}]
    /\ zones = [n \in Nodes |-> {}]
    /\ precords = [n \in Nodes |-> {}]
    /\ pzones = [n \in Nodes |-> {}]
    /\ cfg = [n \in Nodes |-> [NoCfg EXCEPT !.NodeID = n, !.Peers = Nodes \ {n},
                                            !.DefaultNS = <<NS1>>]]
    /\ now = [n \in Nodes |-> 0]
    /\ inflight = {}
    /\ pre = [records |-> {}, zones |-> {}, precords |-> {}, pzones |-> {}]
    /\ last = NoLast
    /\ aux = [rpc |-> "idle", rt |-> 0, rname |-> EmptyName, rrec |-> NoRecord,
              rzone |-> NoZone, trace |-> <<>>,
              zpc |-> "idle", zcfg |-> NoZone, zapplied |-> FALSE]

StepFrame == UNCHANGED <<cfg, pre, last>>

StepAfter_StoreFirst(pc, applied) ==
    CASE pc = "zone" -> "record"
      [] pc = "record" -> "persist-zone"
      [] pc = "persist-zone" -> "persist-record"
      [] pc = "persist-record" -> "respond"
      [] pc = "respond" -> "replicate"
      [] pc = "replicate" -> "done"

\* the statement of handleRecordUpsert that follows statement pc; applied is
\* what the store call of pc returned
StepAfter(pc, applied) ==
    CASE pc = "zone" -> IF applied THEN "persist-zone" ELSE "record"
      [] pc = "persist-zone" -> "record"
      [] pc = "record" -> IF applied THEN "persist-record" ELSE "respond"
      [] pc = "persist-record" -> "respond"
      [] pc = "respond" -> "replicate"
      [] pc = "replicate" -> "done"

\* handleRecordUpsert up to the built record: decode, zone := inferZone(name),
\* now := time.Now(), buildRecordFromRequest
StepValidate ==
    \E name \in {NameApp, Root}, t \in StepTimes :
        LET zone == inferZone(U, name)
            built == buildRecordFromRequest(U, name, [StepReq EXCEPT !.Zone = zone], t)
        IN /\ aux.rpc \in {"idle", "done"}
           /\ now' = [now EXCEPT ![U] = t]
           /\ aux' = IF name = Root \/ built.err # ""
                     THEN [aux EXCEPT !.rpc = "done", !.trace = <<"validate", "respond">>]
                     ELSE [aux EXCEPT !.rpc = "ensure", !.rt = t, !.rname = name,
                                      !.rrec = built.rec,
                                      !.rzone = [NoZone EXCEPT !.Zone = zone],
                                      !.trace = <<"validate">>]
           /\ UNCHANGED <<records, zones, precords, pzones, inflight>>
           /\ StepFrame

\* ensureZoneDefaults(&zoneCfg, now): getZone and the defaults
StepEnsure ==
    /\ aux.rpc = "ensure"
    /\ LET ez == ensureZoneDefaults(U, aux.rzone, aux.rt)
       IN aux' = IF ez.err
                 THEN [aux EXCEPT !.rpc = "done", !.trace = Append(@, "respond")]
                 ELSE [aux EXCEPT !.rpc = "zone", !.rzone = ez.z]
    /\ UNCHANGED <<records, zones, precords, pzones, now, inflight>>
    /\ StepFrame

\* if s.data.upsertZone(zoneCfg) {
StepZone ==
    /\ aux.rpc = "zone"
    /\ LET zo == upsertZone(zones[U], aux.rzone)
       IN /\ zones' = [zones EXCEPT ![U] = zo.zones]
          /\ aux' = [aux EXCEPT !.rpc = StepAfter("zone", zo.applied),
                                !.trace = Append(@, "zone")]
    /\ UNCHANGED <<records, precords, pzones, now, inflight>>
    /\ StepFrame

\* s.persist.upsertZone(zoneCfg) }
StepPersistZone ==
    /\ aux.rpc = "persist-zone"
    /\ pzones' = [pzones EXCEPT ![U] =
                     Durable(U, "zones", @, persistUpsertZone(@, aux.rzone))]
    /\ aux' = [aux EXCEPT !.rpc = StepAfter("persist-zone", TRUE),
                          !.trace = Append(@, "persist-zone")]
    /\ UNCHANGED <<records, zones, precords, now, inflight>>
    /\ StepFrame

\* if s.data.setRecord(rec) {
StepRecord ==
    /\ aux.rpc = "record"
    /\ \E o \in setRecord(records[U], aux.rrec) :
          /\ records' = [records EXCEPT ![U] = o.recs]
          /\ aux' = [aux EXCEPT !.rpc = StepAfter("record", o.applied),
                                !.trace = Append(@, "record")]
    /\ UNCHANGED <<zones, precords, pzones, now, inflight>>
    /\ StepFrame

\* s.persist.upsertRecord(rec) }
StepPersistRecord ==
    /\ aux.rpc = "persist-record"
    /\ precords' = [precords EXCEPT ![U] =
                       Durable(U, "records", @, persistUpsertRecord(@, aux.rrec))]
    /\ aux' = [aux EXCEPT !.rpc = StepAfter("persist-record", TRUE),
                          !.trace = Append(@, "persist-record")]
    /\ UNCHANGED <<records, zones, pzones, now, inflight>>
    /\ StepFrame

\* writeJSON(w, http.StatusOK, rec)
StepRespond ==
    /\ aux.rpc = "respond"
    /\ aux' = [aux EXCEPT !.rpc = StepAfter("respond", TRUE),
                          !.trace = Append(@, "respond")]
    /\ UNCHANGED <<records, zones, precords, pzones, now, inflight>>
    /\ StepFrame

\* if shouldPropagate(req.Propagate) { go s.propagate(...) }
StepReplicate ==
    /\ aux.rpc = "replicate"
    /\ Emit(U, StepReq.Propagate,
            [NoEvent EXCEPT !.OriginNode = cfg[U].NodeID, !.Op = "set", !.HasRecord = TRUE,
                            !.Record = aux.rrec, !.Version = aux.rrec.Version,
                            !.EventTime = aux.rt])
    /\ aux' = [aux EXCEPT !.rpc = StepAfter("replicate", TRUE),
                          !.trace = IF shouldPropagate(StepReq.Propagate)
                                    THEN Append(@, "replicate") ELSE @]
    /\ UNCHANGED <<records, zones, precords, pzones, now>>
    /\ StepFrame

\* handleZoneByName up to the built zone: now := time.Now(), the name servers
\* of the request
StepZonePutBuild ==
    \E t \in StepTimes :
        /\ aux.zpc = "idle"
        /\ now' = [now EXCEPT ![U] = t]
        /\ aux' = [aux EXCEPT !.zpc = "upsert",
                              !.zcfg = [Zone |-> ZoneCom,
                                        NS |-> normalizeNames(StepZoneReq.NS),
                                        SOATTL |-> cfg[U].DefaultTTL,
                                        Serial |-> Unix(t), UpdatedAt |-> t]]
        /\ UNCHANGED <<records, zones, precords, pzones, inflight>>
        /\ StepFrame

\* handleZoneByName from upsertZone(z) to the response
StepZonePutWrite ==
    /\ aux.zpc = "upsert"
    /\ LET zs == ZoneStep(U, aux.zcfg)
       IN /\ zones' = [zones EXCEPT ![U] = zs.zones]
          /\ pzones' = [pzones EXCEPT ![U] = zs.pzones]
          /\ aux' = [aux EXCEPT !.zpc = "done", !.zapplied = zs.applied]
    /\ UNCHANGED <<records, precords, now, inflight>>
    /\ StepFrame

NextSteps ==
    \/ StepValidate
    \/ StepEnsure
    \/ StepZone
    \/ StepPersistZone
    \/ StepRecord
    \/ StepPersistRecord
    \/ StepRespond
    \/ StepReplicate
    \/ StepZonePutBuild
    \/ StepZonePutWrite

SpecSteps == InitSteps /\ [][NextSteps]_vars

\* the position of every statement of trace in order grows along the trace
InOrder(trace, order) ==
    LET rank(step) == CHOOSE i \in 1..Len(order) : order[i] = step
    IN \A i, j \in 1..Len(trace) : i < j => rank(trace[i]) < rank(trace[j])

StoreFirstOrder ==
    <<"validate", "zone", "record", "persist-zone", "persist-record", "respond", "replicate">>

EntityOrder ==
    <<"validate", "zone", "persist-zone", "record", "persist-record", "respond", "replicate">>

\* C37 as stated: within one control-API record upsert request the steps
\* occur in this order: validate, resolve the zone and upsert it in memory,
\* upsert the record in memory, persist the zone, persist the record, write the
\* HTTP response, start the replication fan-out.
C37_StoreFirstOrder == InOrder(aux.trace, StoreFirstOrder)

\* C37: within one control-API record upsert request the steps occur in
\* this order: validate, resolve the zone and upsert it in memory, persist the
\* zone, upsert the record in memory, persist the record, write the HTTP
\* response, start the replication fan-out.
C37_UpsertStepOrder == InOrder(aux.trace, EntityOrder)

\* a request that created its zone and applied its record has run every step
C37_Witness == aux.rpc = "done" /\ aux.trace = EntityOrder

\* C38: a record mutation on a name in a zone never changes the zone's
\* name-server list, even when it runs concurrently with a PUT of the zone:
\* once both requests have completed, the zone's name-server list is the one
\* supplied by the zone PUT.
C38_RecordKeepsZoneNS ==
    (aux.zpc = "done" /\ aux.zapplied /\ aux.rpc \in {"idle", "done"})
        => \A z \in zones[U] : z.Zone = ZoneCom => z.NS = normalizeNames(StepZoneReq.NS)

\* requests served one after the other: a record mutation leaves the name
\* servers of every zone that was stored before it
C38_SequentialKeepsZoneNS ==
    (last.op \in {"put", "add", "remove", "delete", "sync-set", "sync-add", "sync-remove"}) =>
        \A z \in pre.zones : \E z2 \in zones[last.node] : z2.Zone = z.Zone /\ z2.NS = z.NS

\* C39: a control-API record PUT or add whose record write is rejected by
\* the version guard leaves the owning zone entity unchanged in the store and in
\* persistence (same serial, name servers, soa_ttl and updated_at as before
\* the request).
C39_RejectedWriteKeepsZone ==
    (last.op \in {"put", "add"} /\ last.status = 200 /\ ~last.applied) =>
        /\ zones[last.node] = pre.zones
        /\ pzones[last.node] = pre.pzones

\* a rejected record write leaves the records of the store and of the
\* database as they were
C39_RejectedWriteKeepsRecords ==
    (last.op \in {"put", "add"} /\ last.status = 200 /\ ~last.applied) =>
        /\ records[last.node] = pre.records
        /\ precords[last.node] = pre.precords

----------------------------------------------------------------------------
(* A node with one peer: control-API mutations and sync events from outside,
   with the events each request puts in flight *)

InitEmit ==
    /\ records = [n \in Nodes |-> {}]
    /\ zones = [n \in Nodes |-> {}]
    /\ precords = [n \in Nodes |-> {}]
    /\ pzones = [n \in Nodes |-> {}]
    /\ cfg = [n \in Nodes |-> [NoCfg EXCEPT !.NodeID = n, !.Peers = Nodes \ {n},
                                           !.DefaultNS = <<NS1>>]]
    /\ now = [n \in Nodes |-> 0]
    /\ inflight = {}
    /\ pre = [records |-> {}, zones |-> {}, precords |-> {}, pzones |-> {}]
    /\ last = NoLast
    /\ aux = [flag |-> "absent", sent |-> {}]

\* the flag of the request and the events it put in flight
Sent(flag) == aux' = [flag |-> flag, sent |-> inflight' \ inflight]

EmitPut(n) ==
    \E flag \in Flags, t \in Later(n) :
        /\ handleRecordUpsert(n, NameApp, [ClusterReq EXCEPT !.Propagate = flag], t)
        /\ Sent(flag)
EmitAdd(n) ==
    \E flag \in Flags, t \in Later(n) :
        /\ handleRecordAdd(n, NameApp, [ClusterReq EXCEPT !.Propagate = flag], t)
        /\ Sent(flag)
EmitRemove(n) ==
    \E flag \in Flags, t \in Later(n) :
        /\ handleRecordRemove(n, NameApp, [ClusterReq EXCEPT !.Propagate = flag], t)
        /\ Sent(flag)
EmitDelete(n) ==
    \E flag \in Flags, t \in Later(n) :
        /\ handleRecordDelete(n, NameApp, "", flag, t)
        /\ Sent(flag)
EmitZonePut(n) ==
    \E flag \in Flags, t \in Later(n) :
        /\ handleZoneByName(n, ZoneCom, [NS |-> <<NS2>>, SOATTL |-> 0, Propagate |-> flag], t)
        /\ Sent(flag)
EmitSync(n) ==
    \E ev \in ExtEvents, t \in Later(n) :
        /\ handleSyncEvent(n, ev, t)
        /\ UNCHANGED inflight
        /\ Sent("absent")

NextEmit ==
    \/ EmitPut(U)
    \/ EmitAdd(U)
    \/ EmitRemove(U)
    \/ EmitDelete(U)
    \/ EmitZonePut(U)
    \/ EmitSync(U)

SpecEmit == InitEmit /\ [][NextEmit]_vars

\* what the store returned to the last control-API mutation
StoreApplied == IF last.op = "zoneput" THEN last.zapplied ELSE last.applied

\* C40 as stated: a node sends a replication event to its peers only for a
\* control-API mutation that its own store applied; a mutation rejected by the
\* version guard, or a remove/delete that matched no stored member, emits no
\* event.
C40_EventOnlyWhenApplied ==
    (last.op \in ControlOps /\ last.status = 200 /\ ~StoreApplied) => aux.sent = {}

\* C40: a node sends a replication event to each of its peers for every
\* control-API mutation it answers 200 whose propagate flag is not false,
\* whether or not its own store applied it: a mutation rejected by the version
\* guard, or a remove/delete that matched no stored member, emits its event
\* as an applied one does.
C40_EventWhetherApplied ==
    (last.op \in ControlOps /\ last.status = 200) =>
        /\ {m.to : m \in aux.sent} =
              (IF shouldPropagate(aux.flag) THEN cfg[last.node].Peers ELSE {})
        /\ \A m \in aux.sent :
              /\ m.ev.OriginNode = last.node
              /\ m.ev.Version = last.version
              /\ m.ev.EventTime = now[last.node]

\* a PUT rejected by the version guard has put its event in flight
C40_Witness ==
    /\ last.op = "put"
    /\ last.status = 200
    /\ ~last.applied
    /\ records[U] = pre.records
    /\ \E m \in aux.sent : m.to = "n2" /\ m.ev.Op = "set" /\ m.ev.Record = last.rec

\* a remove that matched no stored member has put its event in flight
C40_WitnessRemove ==
    /\ last.op = "remove"
    /\ last.status = 200
    /\ ~last.applied
    /\ pre.records = {}
    /\ \E m \in aux.sent : m.ev.Op = "remove"

====
